---- MODULE Spec2Model ----
(***************************************************************************)
(* State-machine model of the tape CPU simulator (cpu_sim/core): the word  *)
(* algebra of encoding.py, the opcode map of opcodes.py, the tape devices  *)
(* of tape.py and the execution engine and boot driver of cpu.py.          *)
(*                                                                         *)
(* TLC's integers are 32 bits wide, so the 48-bit word of the program is   *)
(* modelled by a word of WORD_BITS bits and every width of the program     *)
(* (sign bit, fraction bits, the 96-bit register pair, the instruction     *)
(* fields) is derived from it the way the program derives it from 48.      *)
(***************************************************************************)
EXTENDS Integers, Sequences, FiniteSets, TLC

(***************************************************************************)
(* Bounds of the model.                                                    *)
(***************************************************************************)
\* Width of a word (the program's WORD_BITS is 48, encoding.py:4).
WORD_BITS == 14
\* Longest instruction sequence of a generated scratchpad program.
MaxProgLen == 2
\* How many times the block executor may be entered on one CPU.
MaxRuns == 1
\* Most functions of a generated library.
MaxEntries == 3
MaxItems == 2
MaxIndex == 3
\* Most functions the library builder is given.
MaxFns == 2

(***************************************************************************)
(* encoding.py: 48-bit helpers.                                            *)
(***************************************************************************)
WORD_MASK == 2^WORD_BITS - 1
SIGN_BIT == 2^(WORD_BITS - 1)
FRAC_BITS == WORD_BITS - 1
MIN_WORD == -(2^(WORD_BITS - 1))
MAX_WORD == 2^(WORD_BITS - 1) - 1
\* Width and mask of the register pair r1:r2 (the program's 96 and (1 << 96) - 1).
PAIR_BITS == 2 * WORD_BITS
PAIR_MASK == 2^PAIR_BITS - 1

\* Python's None (a missing ip, an end-of-tape read): no word, address or index.
None == -(2^WORD_BITS)

\* Python's a ^ b and a & b on non-negative integers below 2^n.
RECURSIVE BitXor(_, _, _)
BitXor(a, b, n) ==
  IF n = 0 THEN 0
  ELSE (((a % 2) + (b % 2)) % 2) + 2 * BitXor(a \div 2, b \div 2, n - 1)

RECURSIVE BitAnd(_, _, _)
BitAnd(a, b, n) ==
  IF n = 0 THEN 0
  ELSE ((a % 2) * (b % 2)) + 2 * BitAnd(a \div 2, b \div 2, n - 1)

RECURSIVE BitOr(_, _, _)
BitOr(a, b, n) ==
  IF n = 0 THEN 0
  ELSE (IF (a % 2) + (b % 2) > 0 THEN 1 ELSE 0) + 2 * BitOr(a \div 2, b \div 2, n - 1)

\* Division that truncates toward zero, as C's / does.
TruncDiv(a, b) ==
  LET q == (IF a < 0 THEN -a ELSE a) \div (IF b < 0 THEN -b ELSE b)
  IN IF (a < 0) = (b < 0) THEN q ELSE -q

\* Python's a // b (floor division), b # 0.
FloorDiv(a, b) == IF b > 0 THEN a \div b ELSE (-a) \div (-b)

clamp_word(val) ==
  IF val < MIN_WORD THEN MIN_WORD ELSE IF val > MAX_WORD THEN MAX_WORD ELSE val

to_twos_complement(val) ==
  LET v == clamp_word(val)
  IN IF v < 0 THEN (BitXor(-v, WORD_MASK, WORD_BITS) + 1) % 2^WORD_BITS
     ELSE v % 2^WORD_BITS

from_twos_complement(bits) ==
  LET b == bits % 2^WORD_BITS
  IN IF b \div SIGN_BIT = 1 THEN -(BitXor(b, WORD_MASK, WORD_BITS) + 1) ELSE b

(***************************************************************************)
(* opcodes.py: the opcode map and the instruction fields.                  *)
(***************************************************************************)
OP ==
  [ NOP |-> 0, LOAD_R1 |-> 1, LOAD_R2 |-> 2, LOAD_R3 |-> 3,
    STORE_R1 |-> 4, STORE_R3 |-> 5,
    CLEAR_R1 |-> 6, CLEAR_R2 |-> 7, CLEAR_R3 |-> 8,
    ADD |-> 9, NEG |-> 10, MUL |-> 11, DIV |-> 12, ROUND |-> 13,
    AND |-> 14, OR |-> 15, XOR |-> 16,
    SHIFT_LEFT |-> 17, SHIFT_RIGHT |-> 18,
    CALL |-> 19, RET |-> 20, WRITE_TAPE |-> 21, READ_CARD |-> 22,
    SKIP |-> 23, SKIP_IF_ZERO |-> 24, SKIP_IF_NONZERO |-> 25,
    TXR |-> 26, HALT |-> 27,
    REWIND |-> 28, FF |-> 29, STATUS |-> 30, JUMP |-> 31,
    SLOAD_R1 |-> 32, SLOAD_R2 |-> 33, SLOAD_R3 |-> 34 ]

\* Python's OP[name]: a KeyError when the map has no such mnemonic.
HasOp(name) == name \in DOMAIN OP

MaxOpcode == CHOOSE c \in {OP[m] : m \in DOMAIN OP} : \A m \in DOMAIN OP : OP[m] <= c

\* Number of bits of n > 0.
BitLen(n) == CHOOSE k \in 1..WORD_BITS : 2^(k - 1) <= n /\ n < 2^k

\* The opcode field (12 bits of 48 in the program) is the narrowest field that
\* holds every assigned opcode; the operand (36 bits of 48) takes the rest.
OPC_BITS == BitLen(MaxOpcode)
OPC_MASK == 2^OPC_BITS - 1
OPR_BITS == WORD_BITS - OPC_BITS
OPR_MASK == 2^OPR_BITS - 1
OPR_SIGN == 2^(OPR_BITS - 1)

CALL_FLAG_PB == 1
CALL_MODE_SCRATCH_ABS == 0
CALL_MODE_LIB_ABS == 1
CALL_MODE_LIB_IDX == 2
CALL_MODE_LIB_NAME == 3

\* CALL operand fields mode | flags | value (4 | 4 | 28 bits of 36 in the
\* program): room for the modes 0..3 and as many unknown ones, for the PB flag,
\* and the rest for the value.
MODE_BITS == BitLen(CALL_MODE_LIB_NAME) + 1
FLAG_BITS == BitLen(CALL_FLAG_PB)
VALUE_BITS == OPR_BITS - MODE_BITS - FLAG_BITS

clamp36(val) ==
  LET min36 == -(2^(OPR_BITS - 1))
      max36 == 2^(OPR_BITS - 1) - 1
  IN IF val < min36 THEN min36 ELSE IF val > max36 THEN max36 ELSE val

\* An operand encoding that complements a negative value without adding one.
ToTc36OnesComplement(val) ==
  LET v == clamp36(val)
  IN IF v < 0 THEN BitXor(-v, OPR_MASK, OPR_BITS) % 2^OPR_BITS
     ELSE v % 2^OPR_BITS

to_tc36(val) ==
  LET v == clamp36(val)
  IN IF v < 0 THEN (BitXor(-v, OPR_MASK, OPR_BITS) + 1) % 2^OPR_BITS
     ELSE v % 2^OPR_BITS

\* An operand field read without its sign.
FromTc36Unsigned(bits) == bits % 2^OPR_BITS

from_tc36(bits) ==
  LET b == bits % 2^OPR_BITS
  IN IF b \div OPR_SIGN = 1 THEN -(BitXor(b, OPR_MASK, OPR_BITS) + 1) ELSE b

pack_call_operand(mode, flags, value) ==
  (mode % 2^MODE_BITS) * 2^(FLAG_BITS + VALUE_BITS)
    + (flags % 2^FLAG_BITS) * 2^VALUE_BITS
    + (value % 2^VALUE_BITS)

encode_instr(op_name, operand) ==
  ((OP[op_name] % 2^OPC_BITS) * 2^OPR_BITS + to_tc36(operand)) % 2^WORD_BITS

\* A word carrying opcode number op, assigned or not, and a raw operand field.
RawInstr(op, opr_bits) == (op % 2^OPC_BITS) * 2^OPR_BITS + (opr_bits % 2^OPR_BITS)

decode_op(bits48) ==
  << (bits48 \div 2^OPR_BITS) % 2^OPC_BITS, bits48 % 2^OPR_BITS >>

(***************************************************************************)
(* tape.py: a tape is its sequence of raw words; record i is element i+1.  *)
(***************************************************************************)
record_count(tape) == Len(tape)

\* A growth that adds one record too many.
EnsureSizeOneMore(tape, n_records) ==
  IF Len(tape) < n_records
  THEN tape \o [k \in 1..(n_records - Len(tape) + 1) |-> 0]
  ELSE tape

_ensure_size(tape, n_records) ==
  IF Len(tape) < n_records
  THEN tape \o [k \in 1..(n_records - Len(tape)) |-> 0]
  ELSE tape

read_word(tape, index) ==
  IF index + 1 > Len(tape) THEN 0 ELSE from_twos_complement(tape[index + 1])

write_word(tape, index, value) ==
  [_ensure_size(tape, index + 1) EXCEPT ![index + 1] = to_twos_complement(value)]

append_word(tape, value) == write_word(tape, Len(tape), value)

read_bits(tape, index) ==
  IF index + 1 > Len(tape) THEN None ELSE tape[index + 1]

write_bits(tape, index, bits48) ==
  [_ensure_size(tape, index + 1) EXCEPT ![index + 1] = bits48 % 2^WORD_BITS]

append_bits(tape, bits48) == write_bits(tape, Len(tape), bits48)

\* A paper write that reuses the last record instead of appending one.
PaperWriteInPlace(tape, value) ==
  write_word(tape, IF tape = << >> THEN 0 ELSE Len(tape) - 1, value)

\* PaperTape.write: append one record.
PaperWrite(tape, value) == append_word(tape, value)

(***************************************************************************)
(* The machine state handed through execute_encoded: the registers, the    *)
(* four tapes with their cursors (TapeFile._pos), the card reader's        *)
(* position, the context stack and the active device; ret is the value     *)
(* execute_encoded returns and err the exception it raised ("" for none).  *)
(***************************************************************************)
DevNames == {"scratchpad", "library", "cards", "paper"}
ExecDevs == {"scratchpad", "library"}

Max(a, b) == IF a > b THEN a ELSE b
Min(a, b) == IF a < b THEN a ELSE b

\* TapeFile._mark_action with an index: the cursor, clamped to the records.
_mark_action(st, d, index) ==
  [st EXCEPT !.pos[d] = Max(0, Min(Max(0, record_count(st.tape[d]) - 1), index))]

\* dev.read_bits / dev.read_word: the value read; Touch is their effect.
DevReadBits(st, d, index) == read_bits(st.tape[d], index)
DevReadWord(st, d, index) == read_word(st.tape[d], index)
Touch(st, d, index) == _mark_action(st, d, index)

\* dev.write_word(index, value).
DevWriteWord(st, d, index, value) ==
  _mark_action([st EXCEPT !.tape[d] = write_word(@, index, value)], d, index)

next_ip(ip, consumed_extra) == IF ip = None THEN None ELSE ip + 1 + consumed_extra

Return(st, nip) == [st EXCEPT !.ret = nip]
\* An exception that is swallowed: execute_encoded returns None.
RaiseSwallowed(st, e) == st

Raise(st, e) == [st EXCEPT !.err = e]

(***************************************************************************)
(* cpu.py: ALU helpers.                                                    *)
(***************************************************************************)
\* A clamp that lets every value through.
ClampOff(x) == x

\* A clamp that wraps around, as a fixed-width register does.
ClampWrap(x) == from_twos_complement(x % 2^WORD_BITS)

_clamp_q47(x) ==
  LET MIN == -(2^(WORD_BITS - 1))
      MAX == 2^(WORD_BITS - 1) - 1
  IN IF x < MIN THEN MIN ELSE IF x > MAX THEN MAX ELSE x

\* A product pair whose low half is left as the unsigned bit pattern.
MulPairLowUnsigned(a, b) ==
  LET prod_bits == (a * b) % 2^PAIR_BITS
  IN << from_twos_complement(prod_bits \div 2^WORD_BITS), prod_bits % 2^WORD_BITS >>

_mul_q47_pair(a, b) ==
  LET prod0 == a * b
      MIN96 == -(2^(PAIR_BITS - 1))
      MAX96 == 2^(PAIR_BITS - 1) - 1
      prod == IF prod0 < MIN96 THEN MIN96 ELSE IF prod0 > MAX96 THEN MAX96 ELSE prod0
      prod_bits == (IF prod < 0 THEN BitXor(-prod, PAIR_MASK, PAIR_BITS) + 1 ELSE prod)
                     % 2^PAIR_BITS
      high_bits == (prod_bits \div 2^WORD_BITS) % 2^WORD_BITS
      low_bits == prod_bits % 2^WORD_BITS
  IN << from_twos_complement(high_bits), from_twos_complement(low_bits) >>

_round_q94_to_q47(high48, low48) ==
  LET hb == to_twos_complement(high48)
      lb == to_twos_complement(low48)
      combined_bits == (hb * 2^WORD_BITS + lb) % 2^PAIR_BITS
      val_q94 == IF combined_bits \div 2^(PAIR_BITS - 1) = 1
                 THEN -(BitXor(combined_bits, PAIR_MASK, PAIR_BITS) + 1)
                 ELSE combined_bits
      half == 2^(FRAC_BITS - 1)
      biased == IF val_q94 >= 0 THEN val_q94 + half ELSE val_q94 - half
      MIN == -(2^(WORD_BITS - 1))
      MAX == 2^(WORD_BITS - 1) - 1
      out == biased \div 2^FRAC_BITS
  IN IF out < MIN THEN MIN ELSE IF out > MAX THEN MAX ELSE out

\* A pair shift that carries the bits shifted out around to the other end.
ShiftPairRotate(st, left, count_signed_36bits) ==
  LET count == Max(0, Min(PAIR_BITS - 1, count_signed_36bits))
      hb == to_twos_complement(st.r1)
      lb == to_twos_complement(st.r2)
      combined == (hb * 2^WORD_BITS + lb) % 2^PAIR_BITS
      shifted == IF left
                 THEN (combined % 2^(PAIR_BITS - count)) * 2^count
                        + combined \div 2^(PAIR_BITS - count)
                 ELSE combined \div 2^count
                        + (combined % 2^count) * 2^(PAIR_BITS - count)
      new_high == (shifted \div 2^WORD_BITS) % 2^WORD_BITS
      new_low == shifted % 2^WORD_BITS
  IN [st EXCEPT !.r1 = from_twos_complement(new_high),
                !.r2 = from_twos_complement(new_low)]

\* Logical shift of r1:r2 as one PAIR_BITS-wide pattern; the count is capped to
\* 0 .. PAIR_BITS - 1 (0 .. 95 in the program).
_shift_pair_96(st, left, count_signed_36bits) ==
  LET count == Max(0, Min(PAIR_BITS - 1, count_signed_36bits))
      hb == to_twos_complement(st.r1)
      lb == to_twos_complement(st.r2)
      combined == (hb * 2^WORD_BITS + lb) % 2^PAIR_BITS
      shifted == IF left THEN (combined % 2^(PAIR_BITS - count)) * 2^count
                 ELSE combined \div 2^count
      new_high == (shifted \div 2^WORD_BITS) % 2^WORD_BITS
      new_low == shifted % 2^WORD_BITS
  IN [st EXCEPT !.r1 = from_twos_complement(new_high),
                !.r2 = from_twos_complement(new_low)]

\* Circular shift of r1 by count mod WORD_BITS.
_rotate_r1(st, left, count_signed_36bits) ==
  LET count == count_signed_36bits % WORD_BITS
      val == to_twos_complement(st.r1)
      rotated == IF left
                 THEN ((val % 2^(WORD_BITS - count)) * 2^count
                        + (val \div 2^(WORD_BITS - count))) % 2^WORD_BITS
                 ELSE ((val \div 2^count)
                        + (val % 2^count) * 2^(WORD_BITS - count)) % 2^WORD_BITS
  IN IF count = 0 THEN st ELSE [st EXCEPT !.r1 = from_twos_complement(rotated)]

\* A reader that delivers the raw bits of the card instead of its signed value.
CardNextBits(st) ==
  IF st.card_pos >= record_count(st.tape["cards"]) THEN None
  ELSE read_bits(st.tape["cards"], st.card_pos)

\* CardReader.read_next: the card delivered (None at the end of the deck) ...
CardNext(st) ==
  IF st.card_pos >= record_count(st.tape["cards"]) THEN None
  ELSE read_word(st.tape["cards"], st.card_pos)

\* A reader that marks the tape's cursor and stays on the card it delivered.
CardAdvanceStuck(st) ==
  IF st.card_pos >= record_count(st.tape["cards"]) THEN st
  ELSE _mark_action(st, "cards", st.card_pos)

\* ... and its effect on the reader and on the cards tape's cursor.
CardAdvance(st) ==
  IF st.card_pos >= record_count(st.tape["cards"]) THEN st
  ELSE [_mark_action(st, "cards", st.card_pos) EXCEPT !.card_pos = @ + 1]

\* PaperTape.write(value).
paper_tape_write(st, value) ==
  LET idx == record_count(st.tape["paper"])
  IN _mark_action([st EXCEPT !.tape["paper"] = PaperWrite(@, value)], "paper", idx)

(***************************************************************************)
(* cpu.py: execute_encoded, the branches in the order of the source.       *)
(***************************************************************************)
\* NOP, STORE, LOAD, CLEAR, WRITE_TAPE, READ_CARD (cpu.py:371-441).
MemIoOps ==
  { OP["NOP"], OP["STORE_R1"], OP["STORE_R3"], OP["LOAD_R1"], OP["LOAD_R2"],
    OP["LOAD_R3"], OP["CLEAR_R1"], OP["CLEAR_R2"], OP["CLEAR_R3"],
    OP["WRITE_TAPE"], OP["READ_CARD"] }

ExecMemIo(st, dev, op, opr_bits, tape_ip) ==
  LET addr == from_tc36(opr_bits)
      nxt == next_ip(tape_ip, 0)
  IN CASE op = OP["NOP"] -> Return(st, nxt)
       [] op = OP["STORE_R1"] ->
            IF addr < 0 THEN Raise(st, "ValueError")
            ELSE Return(DevWriteWord(st, dev, addr, st.r1), nxt)
       [] op = OP["STORE_R3"] ->
            IF addr < 0 THEN Raise(st, "ValueError")
            ELSE Return(DevWriteWord(st, dev, addr, st.r3), nxt)
       [] op = OP["LOAD_R1"] ->
            IF addr < 0 THEN Raise(st, "ValueError")
            ELSE Return([Touch(st, dev, addr) EXCEPT !.r1 = DevReadWord(st, dev, addr)], nxt)
       [] op = OP["LOAD_R2"] ->
            IF addr < 0 THEN Raise(st, "ValueError")
            ELSE Return([Touch(st, dev, addr) EXCEPT !.r2 = DevReadWord(st, dev, addr)], nxt)
       [] op = OP["LOAD_R3"] ->
            IF addr < 0 THEN Raise(st, "ValueError")
            ELSE Return([Touch(st, dev, addr) EXCEPT !.r3 = DevReadWord(st, dev, addr)], nxt)
       [] op = OP["CLEAR_R1"] -> Return([st EXCEPT !.r1 = 0], nxt)
       [] op = OP["CLEAR_R2"] -> Return([st EXCEPT !.r2 = 0], nxt)
       [] op = OP["CLEAR_R3"] -> Return([st EXCEPT !.r3 = 0], nxt)
       [] op = OP["WRITE_TAPE"] -> Return(paper_tape_write(st, st.r3), nxt)
       [] op = OP["READ_CARD"] ->
            LET v == CardNext(st)
            IN Return(IF v # None THEN [CardAdvance(st) EXCEPT !.r3 = v]
                      ELSE CardAdvance(st), nxt)

\* ADD .. SHIFT_RIGHT (cpu.py:443-505).
AluOps ==
  { OP["ADD"], OP["NEG"], OP["MUL"], OP["DIV"], OP["ROUND"], OP["AND"], OP["OR"],
    OP["XOR"], OP["SHIFT_LEFT"], OP["SHIFT_RIGHT"] }

ExecAlu(st, dev, op, opr_bits, tape_ip) ==
  LET nxt == next_ip(tape_ip, 0)
  IN CASE op = OP["ADD"] -> Return([st EXCEPT !.r1 = _clamp_q47(st.r1 + st.r2)], nxt)
       [] op = OP["NEG"] -> Return([st EXCEPT !.r1 = _clamp_q47(-st.r1)], nxt)
       [] op = OP["MUL"] ->
            LET p == _mul_q47_pair(st.r2, st.r3)
            IN Return([st EXCEPT !.r1 = p[1], !.r2 = p[2]], nxt)
       [] op = OP["DIV"] ->
            IF st.r2 = 0
            THEN Return([st EXCEPT !.r1 = IF st.r1 >= 0 THEN 2^(WORD_BITS - 1) - 1
                                          ELSE -(2^(WORD_BITS - 1))], nxt)
            ELSE Return([st EXCEPT !.r1 =
                           _clamp_q47(FloorDiv(st.r1 * 2^FRAC_BITS, st.r2))], nxt)
       [] op = OP["ROUND"] ->
            Return([st EXCEPT !.r1 = _round_q94_to_q47(st.r1, st.r2), !.r2 = 0], nxt)
       [] op = OP["AND"] ->
            Return([st EXCEPT !.r1 = from_twos_complement(
                      BitAnd(to_twos_complement(st.r1), to_twos_complement(st.r2),
                             WORD_BITS))], nxt)
       [] op = OP["OR"] ->
            Return([st EXCEPT !.r1 = from_twos_complement(
                      BitOr(to_twos_complement(st.r1), to_twos_complement(st.r2),
                            WORD_BITS))], nxt)
       [] op = OP["XOR"] ->
            Return([st EXCEPT !.r1 = from_twos_complement(
                      BitXor(to_twos_complement(st.r1), to_twos_complement(st.r2),
                             WORD_BITS))], nxt)
       [] op = OP["SHIFT_LEFT"] ->
            Return(_shift_pair_96(st, TRUE, from_tc36(opr_bits)), nxt)
       [] op = OP["SHIFT_RIGHT"] ->
            Return(_shift_pair_96(st, FALSE, from_tc36(opr_bits)), nxt)

(***************************************************************************)
(* cpu.py: library helpers. The magic constant and the PB shadow base are  *)
(* the program's constants cut to the model's word and operand widths.     *)
(***************************************************************************)
LIB_MAGIC == 19529 % 2^(WORD_BITS - 1)
PB_SHADOW_BASE == 2^(OPR_BITS - 2)

\* _lib_header: "ValueError" unless word 0 is the magic, else "".
LibHeaderErr(lib) == IF read_bits(lib, 0) # LIB_MAGIC THEN "ValueError" ELSE ""
LibEntryCount(lib) == read_bits(lib, 2)
LibTocStart(lib) == read_bits(lib, 3)

_lib_toc_entry(lib, toc_start, idx) ==
  LET base == toc_start + idx * 4
  IN [ fn_id |-> read_bits(lib, base + 0), namehash |-> read_bits(lib, base + 1),
       start |-> read_bits(lib, base + 2), length |-> read_bits(lib, base + 3) ]

\* The outcome of a resolution: the address found, or the exception raised,
\* and the last library index it read.
\* A resolution that answers with the address of the function header.
FoundAtHeader(start, last) == [err |-> "", addr |-> start, last |-> last]

Found(start, last) ==
  IF start = None THEN [err |-> "TypeError", addr |-> None, last |-> last]
  ELSE [err |-> "", addr |-> start + 3, last |-> last]
NotFound(e, last) == [err |-> e, addr |-> None, last |-> last]

\* A resolution by index that looks for a function ID first and takes the
\* value as a TOC index only when no ID matches.
ResolveIdFirst(lib, val) ==
  LET n == LibEntryCount(lib)
      toc == LibTocStart(lib)
      hits == {i \in 0..(n - 1) : _lib_toc_entry(lib, toc, i).fn_id = val % 2^WORD_BITS}
      first == CHOOSE i \in hits : \A j \in hits : i <= j
  IN IF LibHeaderErr(lib) # "" THEN NotFound("ValueError", 0)
     ELSE IF hits # {}
          THEN Found(_lib_toc_entry(lib, toc, first).start, toc + first * 4 + 3)
     ELSE IF 0 <= val /\ val < n
          THEN Found(_lib_toc_entry(lib, toc, val).start, toc + val * 4 + 3)
     ELSE NotFound("IndexError", IF n = 0 THEN 3 ELSE toc + (n - 1) * 4 + 3)

_lib_resolve_idx(lib, val) ==
  LET n == LibEntryCount(lib)
      toc == LibTocStart(lib)
      hits == {i \in 0..(n - 1) : _lib_toc_entry(lib, toc, i).fn_id = val % 2^WORD_BITS}
      first == CHOOSE i \in hits : \A j \in hits : i <= j
  IN IF LibHeaderErr(lib) # "" THEN NotFound("ValueError", 0)
     ELSE IF n = None \/ toc = None THEN NotFound("TypeError", 3)
     ELSE IF 0 <= val /\ val < n
          THEN Found(_lib_toc_entry(lib, toc, val).start, toc + val * 4 + 3)
     ELSE IF hits # {}
          THEN Found(_lib_toc_entry(lib, toc, first).start, toc + first * 4 + 3)
     ELSE NotFound("IndexError", IF n = 0 THEN 3 ELSE toc + (n - 1) * 4 + 3)

_lib_resolve_name(lib, namehash) ==
  LET n == LibEntryCount(lib)
      toc == LibTocStart(lib)
      hits == {i \in 0..(n - 1) :
                 _lib_toc_entry(lib, toc, i).namehash = namehash % 2^WORD_BITS}
      first == CHOOSE i \in hits : \A j \in hits : i <= j
  IN IF LibHeaderErr(lib) # "" THEN NotFound("ValueError", 0)
     ELSE IF n = None \/ toc = None THEN NotFound("TypeError", 3)
     ELSE IF hits # {}
          THEN Found(_lib_toc_entry(lib, toc, first).start, toc + first * 4 + 3)
     ELSE NotFound("KeyError", IF n = 0 THEN 3 ELSE toc + (n - 1) * 4 + 3)

(***************************************************************************)
(* execute_encoded, continued: the branches after SHIFT_RIGHT.             *)
(***************************************************************************)
\* SKIP .. HALT (cpu.py:558-615).
ExecControl(st, dev, op, opr_bits, tape_ip) ==
  LET addr == from_tc36(opr_bits)
      nxt == next_ip(tape_ip, 0)
      skip == IF tape_ip = None THEN None ELSE tape_ip + 2
  IN CASE op = OP["SKIP"] -> Return(st, skip)
       [] op = OP["SKIP_IF_ZERO"] -> Return(st, IF st.r1 = 0 THEN skip ELSE nxt)
       [] op = OP["SKIP_IF_NONZERO"] -> Return(st, IF st.r1 # 0 THEN skip ELSE nxt)
       [] op = OP["TXR"] ->
            IF addr < 0 THEN Raise(st, "ValueError") ELSE Return(st, addr)
       [] op = OP["SLOAD_R1"] ->
            IF addr < 0 THEN Raise(st, "ValueError")
            ELSE Return([Touch(st, "scratchpad", addr)
                           EXCEPT !.r1 = DevReadWord(st, "scratchpad", addr)], nxt)
       [] op = OP["SLOAD_R2"] ->
            IF addr < 0 THEN Raise(st, "ValueError")
            ELSE Return([Touch(st, "scratchpad", addr)
                           EXCEPT !.r2 = DevReadWord(st, "scratchpad", addr)], nxt)
       [] op = OP["SLOAD_R3"] ->
            IF addr < 0 THEN Raise(st, "ValueError")
            ELSE Return([Touch(st, "scratchpad", addr)
                           EXCEPT !.r3 = DevReadWord(st, "scratchpad", addr)], nxt)
       [] op = OP["JUMP"] ->
            IF addr < 0 THEN Raise(st, "ValueError") ELSE Return(st, addr)
       [] op = OP["HALT"] -> Return(st, None)

ControlOps ==
  { OP["SKIP"], OP["SKIP_IF_ZERO"], OP["SKIP_IF_NONZERO"], OP["TXR"], OP["SLOAD_R1"],
    OP["SLOAD_R2"], OP["SLOAD_R3"], OP["JUMP"], OP["HALT"] }

\* CALL (cpu.py:618-675), step by step. The last step pushes the return
\* context and switches the active device (cpu.py:669-675).
CallPush(st, dev, tape_ip, consumed_extra, target_dev, target_ip) ==
  IF tape_ip = None THEN Raise(st, "TypeError")
  ELSE Return([st EXCEPT !.ctx_stack = Append(@, << dev, tape_ip + 1 + consumed_extra >>),
                         !.current_dev = target_dev], target_ip)

\* A library target found by index or name, or the exception of the search.
CallLib(st, dev, tape_ip, consumed_extra, res) ==
  IF res.err # "" THEN Raise(Touch(st, "library", res.last), res.err)
  ELSE CallPush(Touch(st, "library", res.last), dev, tape_ip, consumed_extra,
                "library", res.addr)

\* Resolve the target address and device (cpu.py:657-667).
CallResolve(st, dev, mode, value, tape_ip, namehash, consumed_extra) ==
  CASE mode = CALL_MODE_SCRATCH_ABS ->
         CallPush(st, dev, tape_ip, consumed_extra, "scratchpad", value)
    [] mode = CALL_MODE_LIB_ABS ->
         CallPush(st, dev, tape_ip, consumed_extra, "library", value)
    [] mode = CALL_MODE_LIB_IDX ->
         CallLib(st, dev, tape_ip, consumed_extra,
                 _lib_resolve_idx(st.tape["library"], value))
    [] mode = CALL_MODE_LIB_NAME ->
         CallLib(st, dev, tape_ip, consumed_extra,
                 _lib_resolve_name(st.tape["library"], namehash))
    [] OTHER -> Raise(st, "ValueError")

\* The parameter block (cpu.py:641-655): PB[4 ..] copied word by word into the
\* shadow window ...
RECURSIVE PbShadow(_, _, _, _)
PbShadow(st, pb_addr, i, extra) ==
  IF i >= extra THEN st
  ELSE PbShadow(DevWriteWord(st, "scratchpad", PB_SHADOW_BASE + i,
                             DevReadWord(st, "scratchpad", pb_addr + 4 + i)),
                pb_addr, i + 1, extra)

\* ... after r3, r2, r1 are set from PB[3], PB[2], PB[1] as the count allows.
PbR3(st, pb_addr, count) ==
  IF count >= 3
  THEN [Touch(st, "scratchpad", pb_addr + 3)
          EXCEPT !.r3 = DevReadWord(st, "scratchpad", pb_addr + 3)]
  ELSE st

PbR2(st, pb_addr, count) ==
  PbR3(IF count >= 2
       THEN [Touch(st, "scratchpad", pb_addr + 2)
               EXCEPT !.r2 = DevReadWord(st, "scratchpad", pb_addr + 2)]
       ELSE st, pb_addr, count)

PbR1(st, pb_addr, count) ==
  PbR2(IF count >= 1
       THEN [Touch(st, "scratchpad", pb_addr + 1)
               EXCEPT !.r1 = DevReadWord(st, "scratchpad", pb_addr + 1)]
       ELSE st, pb_addr, count)

PbCount(st, pb_addr) == Max(0, DevReadWord(st, "scratchpad", pb_addr))

PbMap(st, pb_addr) ==
  PbShadow(PbR1(Touch(st, "scratchpad", pb_addr), pb_addr, PbCount(st, pb_addr)),
           pb_addr, 0, Max(0, PbCount(st, pb_addr) - 3))

\* The PB-address immediate (cpu.py:632-639).
CallPbWord(st, dev, mode, flags, value, tape_ip, namehash, consumed_extra) ==
  IF BitAnd(flags, CALL_FLAG_PB, FLAG_BITS) = 0
  THEN CallResolve(st, dev, mode, value, tape_ip, namehash, consumed_extra)
  ELSE IF tape_ip = None THEN Raise(st, "TypeError")
  ELSE IF DevReadBits(st, dev, tape_ip + 1 + consumed_extra) = None
       THEN Raise(Touch(st, dev, tape_ip + 1 + consumed_extra), "ValueError")
  ELSE CallResolve(PbMap(Touch(st, dev, tape_ip + 1 + consumed_extra),
                         DevReadBits(st, dev, tape_ip + 1 + consumed_extra)),
                   dev, mode, value, tape_ip, namehash, consumed_extra + 1)

\* The namehash immediate (cpu.py:624-630).
CallNameWord(st, dev, mode, flags, value, tape_ip) ==
  IF mode # CALL_MODE_LIB_NAME
  THEN CallPbWord(st, dev, mode, flags, value, tape_ip, None, 0)
  ELSE IF tape_ip = None THEN Raise(st, "TypeError")
  ELSE IF DevReadBits(st, dev, tape_ip + 1) = None
       THEN Raise(Touch(st, dev, tape_ip + 1), "ValueError")
  ELSE CallPbWord(Touch(st, dev, tape_ip + 1), dev, mode, flags, value, tape_ip,
                  DevReadBits(st, dev, tape_ip + 1), 1)

\* The operand fields mode | flags | value (cpu.py:619-621).
CallMode(opr_bits) == (opr_bits \div 2^(FLAG_BITS + VALUE_BITS)) % 2^MODE_BITS
CallFlags(opr_bits) == (opr_bits \div 2^VALUE_BITS) % 2^FLAG_BITS
CallValue(opr_bits) == opr_bits % 2^VALUE_BITS

ExecCall(st, dev, opr_bits, tape_ip) ==
  CallNameWord(st, dev, CallMode(opr_bits), CallFlags(opr_bits), CallValue(opr_bits),
               tape_ip)

\* RET (cpu.py:677-687).
ExecRet(st, dev, tape_ip) ==
  IF st.ctx_stack # << >>
  THEN LET top == st.ctx_stack[Len(st.ctx_stack)]
       IN Return([st EXCEPT !.ctx_stack = SubSeq(@, 1, Len(@) - 1),
                            !.current_dev = top[1]], top[2])
  ELSE Return(st, None)

\* ROTATE_LEFT .. SUB (cpu.py:507-556).
ExecExt(st, dev, op, opr_bits, tape_ip) ==
  LET nxt == next_ip(tape_ip, 0)
  IN CASE op = OP["ROTATE_LEFT"] -> Return(_rotate_r1(st, TRUE, from_tc36(opr_bits)), nxt)
       [] op = OP["ROTATE_RIGHT"] -> Return(_rotate_r1(st, FALSE, from_tc36(opr_bits)), nxt)
       [] op = OP["IMUL"] -> Return([st EXCEPT !.r1 = st.r2 * st.r3], nxt)
       [] op = OP["IDIV"] ->
            IF st.r3 = 0 THEN Raise(st, "ValueError")
            ELSE LET q == (IF st.r2 < 0 THEN -st.r2 ELSE st.r2)
                            \div (IF st.r3 < 0 THEN -st.r3 ELSE st.r3)
                 IN Return([st EXCEPT !.r1 = IF (st.r2 < 0) = (st.r3 < 0) THEN q ELSE -q],
                           nxt)
       [] op = OP["SUB"] -> Return([st EXCEPT !.r1 = st.r2 - st.r3], nxt)

\* The mnemonics execute_encoded looks up with OP[...] after SHIFT_RIGHT, in order.
ExtNames == << "ROTATE_LEFT", "ROTATE_RIGHT", "IMUL", "IDIV", "SUB" >>

\* The chain of lookups as it would be with every mnemonic in the opcode map
\* and none of them matching.
ExtLookupAllKnown(op) == "none"

\* What that chain of lookups does with opcode op: "match" when a branch takes
\* it, "KeyError" when a lookup of a mnemonic the opcode map lacks comes first
\* (Python raises on OP[name]), "none" when every lookup succeeds and none matches.
ExtLookup(op) ==
  LET bad == {i \in 1..Len(ExtNames) : ~HasOp(ExtNames[i])}
      hit == {i \in 1..Len(ExtNames) : HasOp(ExtNames[i]) /\ OP[ExtNames[i]] = op}
  IN IF hit # {} /\ (\A b \in bad : \E h \in hit : h < b) THEN "match"
     ELSE IF bad # {} THEN "KeyError"
     ELSE "none"

\* REWIND, FF, STATUS (cpu.py:689-729) on TapeFile devices; the FF operand is
\* device | count.
FF_COUNT_BITS == OPR_BITS - MODE_BITS
CodeDev(dev_code) ==
  CASE dev_code = 0 -> "scratchpad" [] dev_code = 1 -> "library"
    [] dev_code = 2 -> "cards" [] OTHER -> "none"

\* A fast_forward that stops at the end-of-tape index record_count.
FastForwardToEnd(st, d, count) ==
  [st EXCEPT !.pos[d] = Max(0, Min(record_count(st.tape[d]), st.pos[d] + Max(0, count)))]

\* TapeFile.fast_forward(count).
fast_forward(st, d, count) ==
  _mark_action(st, d, Max(0, Min(record_count(st.tape[d]), st.pos[d] + Max(0, count))))

RealismOps == { OP["REWIND"], OP["FF"], OP["STATUS"] }

ExecRealism(st, dev, op, opr_bits, tape_ip) ==
  LET nxt == next_ip(tape_ip, 0)
      d == CodeDev(from_tc36(opr_bits))
      ffd == CodeDev((opr_bits \div 2^FF_COUNT_BITS) % 2^(OPR_BITS - FF_COUNT_BITS))
  IN CASE op = OP["REWIND"] ->
            Return(IF d = "none" THEN st ELSE _mark_action(st, d, 0), nxt)
       [] op = OP["FF"] ->
            Return(IF ffd = "none" THEN st
                   ELSE fast_forward(st, ffd, opr_bits % 2^FF_COUNT_BITS), nxt)
       [] op = OP["STATUS"] ->
            Return([st EXCEPT !.r3 = IF d = "none" THEN 0 ELSE st.pos[d]], nxt)

\* The branch of execute_encoded that takes the word, up to its _emit_trace.
ExecBranch(st, dev, bits48, tape_ip) ==
  LET op == decode_op(bits48)[1]
      opr_bits == decode_op(bits48)[2]
  IN IF op \in MemIoOps THEN ExecMemIo(st, dev, op, opr_bits, tape_ip)
     ELSE IF op \in AluOps THEN ExecAlu(st, dev, op, opr_bits, tape_ip)
     ELSE IF ExtLookup(op) = "match" THEN ExecExt(st, dev, op, opr_bits, tape_ip)
     ELSE IF ExtLookup(op) = "KeyError" THEN Raise(st, "KeyError")
     ELSE IF op \in ControlOps THEN ExecControl(st, dev, op, opr_bits, tape_ip)
     ELSE IF op = OP["CALL"] THEN ExecCall(st, dev, opr_bits, tape_ip)
     ELSE IF op = OP["RET"] THEN ExecRet(st, dev, tape_ip)
     ELSE IF op \in RealismOps THEN ExecRealism(st, dev, op, opr_bits, tape_ip)
     ELSE Return(st, next_ip(tape_ip, 0))

\* The opcodes whose branch calls _emit_trace before it returns: every branch
\* but NOP's and the final one for unknown opcodes.
Emits(op) ==
  /\ op # OP["NOP"]
  /\ \/ op \in MemIoOps \cup AluOps \cup ControlOps \cup RealismOps
     \/ op \in {OP["CALL"], OP["RET"]}
     \/ ExtLookup(op) = "match"

\* A trace that rewinds the device to learn its position.
EmitTraceRewinding(st, dev, ip_, op_code, opr_bits, ctx_switch) ==
  IF ~st.trace_sink.attached THEN st
  ELSE [st EXCEPT !.trace_sink.collector = Append(@, [ip |-> ip_, device |-> dev]),
                  !.pos[dev] = 0]

\* CPU._emit_trace: nothing without a sink; with one, the event is built from
\* the state the instruction left, the anomaly rules are run (what they raise
\* is swallowed, what they return goes into the event) and the sink gets the
\* event.
_emit_trace(st, dev, ip_, op_code, opr_bits, ctx_switch) ==
  IF ~st.trace_sink.attached THEN st
  ELSE LET event == [ ip |-> ip_, device |-> dev, op_code |-> op_code,
                      operand_raw |-> opr_bits, r1 |-> st.r1, r2 |-> st.r2, r3 |-> st.r3,
                      stack_depth |-> Len(st.ctx_stack), ctx_switch |-> ctx_switch,
                      dev_pos |-> st.pos[dev],
                      anomalies |-> IF st.trace_sink.rules = "hits"
                                    THEN << "rule" >> ELSE << >> ]
       IN [st EXCEPT
            !.metrics = [@ EXCEPT
                           !.instr_count = @ + 1,
                           !.max_stack_depth = Max(@, Len(st.ctx_stack)),
                           !.by_device[dev] = @ + 1,
                           !.by_opcode[op_code] = @ + 1,
                           !.ctx_switches = IF ctx_switch THEN @ + 1 ELSE @],
            !.trace_sink.collector = Append(@, event)]

\* The _emit_trace of the branch that was taken: res is what the branch left,
\* ctx_switch is set by CALL and by a RET that pops a frame.
Traced(st, res, dev, tape_ip, op, opr_bits) ==
  IF res.err = "" /\ Emits(op)
  THEN _emit_trace(res, dev, tape_ip, op, opr_bits,
                   op = OP["CALL"] \/ (op = OP["RET"] /\ st.ctx_stack # << >>))
  ELSE res

\* execute_encoded(dev, bits48, tape_ip).
execute_encoded(st, dev, bits48, tape_ip) ==
  Traced(st, ExecBranch(st, dev, bits48, tape_ip), dev, tape_ip,
         decode_op(bits48)[1], decode_op(bits48)[2])

(***************************************************************************)
(* The machine: one CPU with its four tapes, driven by boot_from_cards and *)
(* by _execute_block.                                                      *)
(***************************************************************************)
VARIABLES
  r1, r2, r3,      \* CPU.r1, r2, r3
  tape,            \* the records of the scratchpad, library, cards and paper tapes
  pos,             \* TapeFile._pos of each tape
  card_pos,        \* CardReader.pos
  ctx_stack,       \* CPU._ctx_stack: frames << device, return ip >>
  current_dev,     \* CPU._current_dev ("none" before the first block)
  ip,              \* the ip of _execute_block's loop
  boot_idx,        \* CPU._boot_idx
  pc,              \* "idle", "boot" (in boot_from_cards), "block" (in
                   \* _execute_block), "done" (returned), "fatal" (raised)
  err,             \* the exception that ended the run, "" for none
  runs,            \* how many times _execute_block has been entered
  last,            \* the instruction executed last: its word, device and ip, and
                   \* the registers it found
  written,         \* history: the r3 of every WRITE_TAPE executed, in order
  resolved,        \* the last direct call of a library resolver or of a tape
                   \* operation, and its outcome
  built_from,      \* the items CardsBuilder built the cards deck from, << >> for
                   \* a deck that was written by hand
  trace_sink,      \* CPU.trace_sink and CPU._anomaly_rules: whether a sink is
                   \* attached, what the rules do, and the events the sink got
  metrics,         \* CPU.metrics
  nesting          \* history: the device the current block was started on and
                   \* the target devices of the CALLs not yet returned from

vars ==
  << r1, r2, r3, tape, pos, card_pos, ctx_stack, current_dev, ip, boot_idx, pc, err,
     runs, last, written, resolved, built_from, trace_sink, metrics, nesting >>

\* The state execute_encoded works on.
St ==
  [ r1 |-> r1, r2 |-> r2, r3 |-> r3, tape |-> tape, pos |-> pos, card_pos |-> card_pos,
    ctx_stack |-> ctx_stack, current_dev |-> current_dev, trace_sink |-> trace_sink,
    metrics |-> metrics, ret |-> None, err |-> "" ]

\* What an instruction leaves behind, whether it returned or raised.
Commit(res) ==
  /\ r1' = res.r1 /\ r2' = res.r2 /\ r3' = res.r3
  /\ tape' = res.tape /\ pos' = res.pos /\ card_pos' = res.card_pos
  /\ ctx_stack' = res.ctx_stack /\ current_dev' = res.current_dev
  /\ trace_sink' = res.trace_sink
  /\ metrics' = res.metrics
  /\ err' = res.err

scratchpad == tape["scratchpad"]
library == tape["library"]
cards == tape["cards"]
paper == tape["paper"]

(***************************************************************************)
(* Initial tapes.                                                          *)
(***************************************************************************)
\* Scratchpad layout of the programs: two data words, then code.
DataWords(d0, d1) == << to_twos_complement(d0), to_twos_complement(d1) >>
ProgStart == Len(DataWords(0, 0))

\* Register operands: the extremes, the halves, small values of both signs.
Samples ==
  { MIN_WORD, MIN_WORD + 1, -(2^(FRAC_BITS - 1)) - 1, -(2^(FRAC_BITS - 1)), -3, -1, 0,
    1, 2, 2^(FRAC_BITS - 1) - 1, 2^(FRAC_BITS - 1), MAX_WORD - 1, MAX_WORD }

\* A library of one function (header, TOC, function record, one global word),
\* laid out as lib_builder.py lays it out.
FNHDR_MAGIC == 17998 % 2^(WORD_BITS - 1)
LibHeaderWords == << LIB_MAGIC, 1, 1, 4 >>
LibFnHeader == << FNHDR_MAGIC, 0, 0 >>
LibBody == Len(LibHeaderWords) + 4 + Len(LibFnHeader)
LibGlobal == LibBody + 3
LibBodyWords ==
  << encode_instr("STORE_R1", LibGlobal), encode_instr("LOAD_R2", LibGlobal),
     encode_instr("RET", 0) >>
Lib1 ==
  LibHeaderWords \o << 1, 77, Len(LibHeaderWords) + 4, 6 >> \o LibFnHeader
    \o LibBodyWords \o << 0 >>

CallWord(mode, flags, value) ==
  RawInstr(OP["CALL"], pack_call_operand(mode, flags, value))
UnknownOp == MaxOpcode + 1

\* The instruction words the generated programs are made of.
GenInstrs ==
  { encode_instr("NOP", 0), encode_instr("LOAD_R1", 0), encode_instr("LOAD_R2", 1),
    encode_instr("LOAD_R3", 1), encode_instr("STORE_R1", ProgStart + 1),
    encode_instr("STORE_R3", -1), encode_instr("WRITE_TAPE", 0),
    encode_instr("READ_CARD", 0), encode_instr("ADD", 0), encode_instr("MUL", 0),
    encode_instr("ROUND", 0), encode_instr("HALT", 0), encode_instr("RET", 0),
    CallWord(CALL_MODE_LIB_ABS, 0, LibBody), RawInstr(UnknownOp, 5) }

RECURSIVE SeqsUpTo(_, _)
SeqsUpTo(S, n) ==
  IF n = 0 THEN {<< >>}
  ELSE LET shorter == SeqsUpTo(S, n - 1)
       IN shorter \cup {Append(q, x) : q \in shorter, x \in S}

GenPrograms == SeqsUpTo(GenInstrs, MaxProgLen) \ {<< >>}

\* Programs over the two data words d0, d1 at scratchpad 0 and 1.
AluPrograms ==
  { << encode_instr("LOAD_R2", 0), encode_instr("LOAD_R3", 1), encode_instr("MUL", 0),
       encode_instr("ROUND", 0), encode_instr("STORE_R1", 0), encode_instr("LOAD_R3", 0),
       encode_instr("WRITE_TAPE", 0) >>,
    << encode_instr("LOAD_R1", 0), encode_instr("LOAD_R2", 1), encode_instr("ROUND", 0),
       encode_instr("NEG", 0) >>,
    << encode_instr("LOAD_R1", 0), encode_instr("LOAD_R2", 1), encode_instr("DIV", 0),
       encode_instr("ADD", 0) >>,
    << encode_instr("LOAD_R1", 0), encode_instr("LOAD_R2", 1), encode_instr("XOR", 0),
       encode_instr("SHIFT_RIGHT", 3), encode_instr("SHIFT_LEFT", WORD_BITS + 1) >>,
    << encode_instr("LOAD_R1", 0), encode_instr("LOAD_R2", 1), encode_instr("AND", 0),
       encode_instr("LOAD_R1", 0), encode_instr("OR", 0),
       encode_instr("SHIFT_LEFT", -1) >>,
    << encode_instr("LOAD_R1", 0), encode_instr("LOAD_R2", 1), encode_instr("ADD", 0),
       encode_instr("NEG", 0) >> }

\* Calls with immediate words: by name with a parameter block of two
\* arguments (the data words), by index, to a scratchpad address, and with a
\* parameter block of five arguments behind the code.
CallPrograms ==
  { << CallWord(CALL_MODE_LIB_NAME, CALL_FLAG_PB, 0), 77, 0,
       encode_instr("WRITE_TAPE", 0), encode_instr("HALT", 0) >>,
    << CallWord(CALL_MODE_LIB_IDX, 0, 0), encode_instr("HALT", 0) >>,
    << CallWord(CALL_MODE_SCRATCH_ABS, 0, ProgStart + 2), encode_instr("HALT", 0),
       encode_instr("LOAD_R3", 0), encode_instr("RET", 0) >>,
    << CallWord(CALL_MODE_SCRATCH_ABS, CALL_FLAG_PB, ProgStart + 3), ProgStart + 4,
       encode_instr("HALT", 0), encode_instr("RET", 0),
       5, 11, to_twos_complement(-12), 13, 14, to_twos_complement(-15) >> }

\* Calls that cannot be resolved: an index and a namehash the library does
\* not have, and a mode past the last one.
BadCallPrograms ==
  { << CallWord(CALL_MODE_LIB_IDX, 0, 9), encode_instr("HALT", 0) >>,
    << CallWord(CALL_MODE_LIB_NAME, 0, 0), 79, encode_instr("HALT", 0) >>,
    << CallWord(CALL_MODE_LIB_NAME + 1, 0, 0), encode_instr("HALT", 0) >> }

\* Calls with a parameter block that end in an error: an index and a namehash
\* the library does not have, a mode past the last one, and a parameter-block
\* flag with no immediate word behind the CALL.
BadPbCallPrograms ==
  { << CallWord(CALL_MODE_LIB_IDX, CALL_FLAG_PB, 9), ProgStart + 3,
       encode_instr("HALT", 0), 5, 11, to_twos_complement(-12), 13, 14,
       to_twos_complement(-15) >>,
    << CallWord(CALL_MODE_LIB_NAME, CALL_FLAG_PB, 0), 79, ProgStart + 4,
       encode_instr("HALT", 0), 2, 11, 12 >>,
    << CallWord(CALL_MODE_LIB_NAME + 1, CALL_FLAG_PB, 0), ProgStart + 3,
       encode_instr("HALT", 0), 1, 11 >>,
    << encode_instr("NOP", 0), CallWord(CALL_MODE_SCRATCH_ABS, CALL_FLAG_PB, 0) >> }

\* The instructions that take an address, each alone with a negative operand.
AddrNames ==
  { "LOAD_R1", "LOAD_R2", "LOAD_R3", "STORE_R1", "STORE_R3", "SLOAD_R1", "SLOAD_R2",
    "SLOAD_R3", "TXR", "JUMP" }
NegPrograms ==
  {<< encode_instr(m, a) >> : m \in AddrNames, a \in {-1, -(2^(OPR_BITS - 1))}}

\* Skips, transfers and scratchpad loads over the data words d0, d1, with r1
\* zero and non-zero and with r2, r3 loaded or not.
CtlPrograms ==
  { << encode_instr("LOAD_R1", 0), encode_instr(m, 0), encode_instr("HALT", 0),
       encode_instr("NOP", 0) >> : m \in {"SKIP", "SKIP_IF_ZERO", "SKIP_IF_NONZERO"} }
  \cup { << encode_instr("LOAD_R2", 1), encode_instr("LOAD_R3", 1), encode_instr(m, 0),
            encode_instr("HALT", 0), encode_instr("NOP", 0) >> :
           m \in {"SKIP", "SKIP_IF_ZERO", "SKIP_IF_NONZERO"} }
  \cup { << encode_instr("LOAD_R1", 1), encode_instr(m, a) >> :
           m \in {"TXR", "JUMP"}, a \in {0, ProgStart + 3} }
  \cup { << encode_instr("LOAD_R1", 1), encode_instr("LOAD_R2", 1), encode_instr(m, 0) >> :
           m \in {"SLOAD_R1", "SLOAD_R2", "SLOAD_R3"} }

\* REWIND, FF and STATUS of the three devices and of device codes no device
\* has, first in the program and behind a LOAD that moves the cursor.
FFWord(dev_code, count) == RawInstr(OP["FF"], dev_code * 2^FF_COUNT_BITS + count)
RealismWords ==
  {encode_instr(m, d) : m \in {"REWIND", "STATUS"}, d \in {0, 1, 2, 3}}
    \cup {FFWord(d, c) : d \in {0, 1, 2, 3}, c \in {0, 2}}
RealismPrograms ==
  {<< encode_instr("LOAD_R3", 1), w >> : w \in RealismWords}
    \cup {<< encode_instr("REWIND", d), encode_instr("STATUS", d) >> : d \in {0, 1, 2}}

\* READ_CARD past the end of the deck, and READ_CARD on both sides of a REWIND
\* or FF of the cards device.
CardPrograms ==
  { << encode_instr("READ_CARD", 0), encode_instr("READ_CARD", 0),
       encode_instr("READ_CARD", 0), encode_instr("WRITE_TAPE", 0) >>,
    << encode_instr("READ_CARD", 0), encode_instr("REWIND", 2),
       encode_instr("READ_CARD", 0) >>,
    << encode_instr("READ_CARD", 0), FFWord(2, 1), encode_instr("READ_CARD", 0) >> }

\* SHIFT_RIGHT by k, then SHIFT_LEFT by k, of the pair loaded from d0, d1.
ShiftCounts == {0, 1, WORD_BITS - 1, WORD_BITS, WORD_BITS + 1, PAIR_BITS - 1}
ShiftPrograms ==
  { << encode_instr("LOAD_R1", 0), encode_instr("LOAD_R2", 1),
       encode_instr("SHIFT_RIGHT", k), encode_instr("SHIFT_LEFT", k) >> : k \in ShiftCounts }

\* A library whose only function has the given body.
LibWith(body) ==
  LibHeaderWords \o << 1, 77, Len(LibHeaderWords) + 4, Len(LibFnHeader) + Len(body) >>
    \o LibFnHeader \o body

\* Library functions that transfer, load and ask for the cursor while the
\* library is the active device.
LibBodies ==
  { << encode_instr("TXR", LibBody + 2), encode_instr("HALT", 0), encode_instr("RET", 0) >>,
    << encode_instr("JUMP", LibBody + 2), encode_instr("HALT", 0), encode_instr("RET", 0) >>,
    << encode_instr("SLOAD_R1", 0), encode_instr("LOAD_R2", 0), encode_instr("RET", 0) >>,
    << encode_instr("LOAD_R1", 0), encode_instr("SLOAD_R3", 1), encode_instr("RET", 0) >>,
    << encode_instr("REWIND", 1), encode_instr("STATUS", 1), encode_instr("RET", 0) >> }

\* The library with a wrong word 0.
BadMagicLib == [Lib1 EXCEPT ![1] = 0]

\* Boot decks: odd cards are data, even cards instruction words.
(***************************************************************************)
(* tools/cards_builder.py and cli.py: a boot deck built from items         *)
(* << bits, addr >>, and the same items written to the scratchpad.         *)
(***************************************************************************)
\* CardsBuilder.append_pair_store: the DATA card, then the STORE_R1 card.
append_pair_store(deck, word_bits, store_addr) ==
  append_bits(append_word(deck, from_twos_complement(word_bits % 2^WORD_BITS)),
              encode_instr("STORE_R1", store_addr) % 2^WORD_BITS)

\* CardsBuilder.finalize_boot: DATA 0, then TXR start_addr.
finalize_boot(deck, start_addr) ==
  append_bits(append_word(deck, 0), encode_instr("TXR", start_addr) % 2^WORD_BITS)

RECURSIVE AppendPairs(_, _)
AppendPairs(deck, items) ==
  IF items = << >> THEN deck
  ELSE AppendPairs(append_pair_store(deck, items[1][1], items[1][2]), Tail(items))

BuildDeck(items, start_addr) == finalize_boot(AppendPairs(<< >>, items), start_addr)

\* cli.write_scratchpad: write_bits of every item, in order.
RECURSIVE write_scratchpad(_, _)
write_scratchpad(t, items) ==
  IF items = << >> THEN t
  ELSE write_scratchpad(write_bits(t, items[1][2], items[1][1]), Tail(items))

ItemBits == {0, 1, SIGN_BIT, WORD_MASK}
ItemAddrs == {0, 1, 2^(OPR_BITS - 1) - 1}
ItemSeqs == SeqsUpTo(ItemBits \X ItemAddrs, MaxItems)

Decks ==
  { << >>,
    << to_twos_complement(6), to_twos_complement(-2) >>,
    << to_twos_complement(5), encode_instr("STORE_R1", 0), to_twos_complement(-7),
       encode_instr("NOP", 0), to_twos_complement(MAX_WORD), encode_instr("ADD", 0),
       to_twos_complement(1) >>,
    << to_twos_complement(5), encode_instr("STORE_R1", 1), to_twos_complement(3),
       encode_instr("TXR", ProgStart) >>,
    << to_twos_complement(4), encode_instr("READ_CARD", 0), to_twos_complement(9),
       encode_instr("WRITE_TAPE", 0), to_twos_complement(8), encode_instr("HALT", 0) >>,
    << to_twos_complement(5), encode_instr("STORE_R1", -1), to_twos_complement(3),
       encode_instr("STORE_R1", 0) >>,
    << to_twos_complement(4), encode_instr("READ_CARD", 0), to_twos_complement(9),
       encode_instr("WRITE_TAPE", 0) >> }

DataDeck == << to_twos_complement(6), to_twos_complement(-2) >>
BootProgram ==
  << encode_instr("LOAD_R1", 0), encode_instr("READ_CARD", 0),
     encode_instr("WRITE_TAPE", 0), encode_instr("LOAD_R3", 1),
     encode_instr("WRITE_TAPE", 0) >>

Tapes(sp, lib, deck) ==
  [ scratchpad |-> sp, library |-> lib, cards |-> deck, paper |-> << >> ]

InitTapes ==
  {Tapes(DataWords(d0, d1) \o p, Lib1, DataDeck) :
     d0 \in Samples, d1 \in Samples, p \in AluPrograms}
  \cup {Tapes(DataWords(MAX_WORD, -1) \o p, Lib1, DataDeck) :
          p \in GenPrograms \cup NegPrograms \cup CardPrograms}
  \cup {Tapes(DataWords(2, -3) \o p, lib, DataDeck) :
          p \in CallPrograms \cup BadCallPrograms \cup BadPbCallPrograms,
          lib \in {Lib1, BadMagicLib}}
  \cup {Tapes(DataWords(2, -3) \o BootProgram, Lib1, d) :
          d \in Decks}
  \cup {Tapes(DataWords(d0, -3) \o p, Lib1, DataDeck) :
          d0 \in {0, 2}, p \in CtlPrograms \cup RealismPrograms}
  \cup {Tapes(DataWords(d0, d1) \o p, Lib1, DataDeck) :
          d0 \in Samples, d1 \in Samples, p \in ShiftPrograms}
  \cup {Tapes(DataWords(2, -3) \o << encode_instr("HALT", 0) >>, LibWith(b), DataDeck) :
          b \in LibBodies}

\* No block has been started and no CALL is open.
NoBlock == [block_dev |-> "none", call_devs |-> << >>]

\* No trace sink is attached and no anomaly rule is registered (CPU.__init__).
NoSink == [attached |-> FALSE, rules |-> "none", collector |-> << >>]

\* The metrics of a new CPU (CPU.__init__): every count is 0; by_opcode and
\* by_device answer 0 for a key they do not have yet.
NoMetrics ==
  [ instr_count |-> 0, by_opcode |-> [c \in 0..OPC_MASK |-> 0],
    by_device |-> [d \in DevNames |-> 0], errors |-> 0, ctx_switches |-> 0,
    max_stack_depth |-> 0 ]

\* No library resolver has been called directly.
NoCall == [fn |-> "none", arg |-> None, err |-> "", addr |-> None]

Init ==
  /\ r1 = 0 /\ r2 = 0 /\ r3 = 0
  /\ \/ tape \in InitTapes /\ built_from = << >>
     \/ /\ built_from \in ItemSeqs
        /\ tape = Tapes(<< >>, Lib1, BuildDeck(built_from, 0))
  /\ pos = [d \in DevNames |-> 0]
  /\ card_pos = 0
  /\ ctx_stack = << >>
  /\ current_dev = "none"
  /\ ip = None
  /\ boot_idx = 0
  /\ pc = "idle"
  /\ err = ""
  /\ runs = 0
  /\ last = [bits |-> None, dev |-> "none", ip |-> None, regs |-> << 0, 0, 0 >>]
  /\ written = << >>
  /\ resolved = NoCall
  /\ trace_sink = NoSink
  /\ metrics = NoMetrics
  /\ nesting = NoBlock

(***************************************************************************)
(* Actions.                                                                *)
(***************************************************************************)
\* The open CALLs after an instruction whose outcome is res: a frame pushed
\* adds the device the CALL switched to, a frame popped closes the last one.
Nested(res) ==
  IF Len(res.ctx_stack) > Len(ctx_stack) THEN Append(nesting.call_devs, res.current_dev)
  ELSE IF Len(res.ctx_stack) < Len(ctx_stack)
  THEN SubSeq(nesting.call_devs, 1, Len(nesting.call_devs) - 1)
  ELSE nesting.call_devs

\* The history of WRITE_TAPE after executing word bits, whose outcome is res.
Logged(bits, res) ==
  IF decode_op(bits)[1] = OP["WRITE_TAPE"] /\ res.err = "" THEN Append(written, r3)
  ELSE written

\* boot_from_cards() is called (cpu.py:773-774).
StartBoot ==
  /\ pc = "idle"
  /\ boot_idx' = 1
  /\ pc' = "boot"
  /\ UNCHANGED << r1, r2, r3, tape, pos, card_pos, ctx_stack, current_dev, ip, err, runs,
                  last, written, resolved, built_from, trace_sink, metrics, nesting >>

\* One boot_tick and what boot_from_cards does with its result
\* (cpu.py:740-781).
BootTick ==
  /\ pc = "boot"
  /\ LET val == CardNext(St)
         s1 == CardAdvance(St)
         odd == boot_idx % 2 = 1
         bits == to_twos_complement(val)
         res == IF odd THEN [s1 EXCEPT !.r1 = val]
                ELSE execute_encoded(s1, "scratchpad", bits, None)
     IN IF val = None
        THEN /\ pc' = "done"
             /\ UNCHANGED << r1, r2, r3, tape, pos, card_pos, ctx_stack, current_dev, ip,
                             boot_idx, err, runs, last, written, resolved, built_from, trace_sink, metrics, nesting >>
        ELSE /\ Commit(IF res.err = "" /\ res.ret # None
                       THEN [res EXCEPT !.current_dev = "scratchpad"] ELSE res)
             /\ last' = IF odd THEN last
                        ELSE [bits |-> bits, dev |-> "scratchpad", ip |-> None,
                              regs |-> << r1, r2, r3 >>]
             /\ boot_idx' = IF res.err = "" THEN boot_idx + 1 ELSE boot_idx
             /\ pc' = IF res.err # "" THEN "fatal"
                      ELSE IF res.ret # None THEN "block" ELSE "boot"
             /\ ip' = IF res.err = "" /\ res.ret # None THEN res.ret ELSE ip
             /\ runs' = IF res.err = "" /\ res.ret # None THEN runs + 1 ELSE runs
             /\ written' = IF odd THEN written ELSE Logged(bits, res)
             /\ nesting' = [block_dev |-> IF res.err = "" /\ res.ret # None
                                          THEN "scratchpad" ELSE nesting.block_dev,
                             call_devs |-> Nested(res)]
             /\ UNCHANGED << resolved, built_from >>

\* A block entry that leaves the scratchpad active whatever device is given.
StartBlockOnScratchpad(dev, start_ip) ==
  /\ pc \in {"idle", "done"}
  /\ runs < MaxRuns
  /\ current_dev' = "scratchpad"
  /\ ip' = start_ip
  /\ pc' = "block"
  /\ runs' = runs + 1
  /\ nesting' = [nesting EXCEPT !.block_dev = dev]
  /\ UNCHANGED << r1, r2, r3, tape, pos, card_pos, ctx_stack, boot_idx, err, last,
                  written, resolved, built_from, trace_sink, metrics >>

\* _execute_block(dev, start_ip) is called (cpu.py:146-152).
StartBlock(dev, start_ip) ==
  /\ pc \in {"idle", "done"}
  /\ runs < MaxRuns
  /\ current_dev' = dev
  /\ ip' = start_ip
  /\ pc' = "block"
  /\ runs' = runs + 1
  /\ nesting' = [nesting EXCEPT !.block_dev = dev]
  /\ UNCHANGED << r1, r2, r3, tape, pos, card_pos, ctx_stack, boot_idx, err, last,
                  written, resolved, built_from, trace_sink, metrics >>

\* The loop of _execute_block leaves at the end of the active tape
\* (cpu.py:156-163).
BlockEnd ==
  /\ pc = "block"
  /\ ip >= record_count(tape[current_dev])
  /\ pc' = "done"
  /\ UNCHANGED << r1, r2, r3, tape, pos, card_pos, ctx_stack, current_dev, ip, boot_idx,
                  err, runs, last, written, resolved, built_from, trace_sink, metrics, nesting >>

\* One iteration of the loop of _execute_block: fetch, execute, advance
\* (cpu.py:160-172).
BlockExec ==
  /\ pc = "block"
  /\ ip < record_count(tape[current_dev])
  /\ LET bits48 == read_bits(tape[current_dev], ip)
         res == execute_encoded(Touch(St, current_dev, ip), current_dev, bits48, ip)
     IN /\ Commit(res)
        /\ last' = [bits |-> bits48, dev |-> current_dev, ip |-> ip,
                    regs |-> << r1, r2, r3 >>]
        /\ pc' = IF res.err # "" THEN "fatal"
                 ELSE IF res.ret = None THEN "done" ELSE "block"
        /\ ip' = IF res.err = "" /\ res.ret # None THEN res.ret ELSE ip
        /\ written' = Logged(bits48, res)
        /\ nesting' = [nesting EXCEPT !.call_devs = Nested(res)]
        /\ UNCHANGED << boot_idx, runs, resolved, built_from >>

\* Where the host starts a block: the program, or the library function's body.
StartIps(dev) == IF dev = "scratchpad" THEN {ProgStart, ProgStart + 1} ELSE {LibBody}

Next ==
  \/ StartBoot
  \/ BootTick
  \/ \E dev \in ExecDevs : \E s \in StartIps(dev) : StartBlock(dev, s)
  \/ BlockEnd
  \/ BlockExec

Spec == Init /\ [][Next]_vars

(***************************************************************************)
(* The same machine when the host goes on using the CPU: after the blocks  *)
(* of Spec have returned, one more block is started on either device.      *)
(***************************************************************************)
RunTapes ==
  {Tapes(DataWords(2, -3) \o p, Lib1, DataDeck) :
     p \in AluPrograms \cup CallPrograms \cup {<< i >> : i \in GenInstrs}}
  \cup {Tapes(DataWords(2, -3) \o << encode_instr("HALT", 0) >>, LibWith(b), DataDeck) :
          b \in LibBodies}
  \cup {Tapes(DataWords(2, -3) \o BootProgram, Lib1, d) : d \in Decks}

InitRuns ==
  /\ r1 = 0 /\ r2 = 0 /\ r3 = 0
  /\ tape \in RunTapes
  /\ pos = [d \in DevNames |-> 0]
  /\ card_pos = 0
  /\ ctx_stack = << >>
  /\ current_dev = "none"
  /\ ip = None
  /\ boot_idx = 0
  /\ pc = "idle"
  /\ err = ""
  /\ runs = 0
  /\ last = [bits |-> None, dev |-> "none", ip |-> None, regs |-> << 0, 0, 0 >>]
  /\ written = << >>
  /\ resolved = NoCall
  /\ built_from = << >>
  /\ trace_sink = NoSink
  /\ metrics = NoMetrics
  /\ nesting = NoBlock

\* _execute_block(dev, start_ip) is called once more on the same CPU.
Restart(dev, start_ip) ==
  /\ pc = "done"
  /\ runs = MaxRuns
  /\ current_dev' = dev
  /\ ip' = start_ip
  /\ pc' = "block"
  /\ runs' = runs + 1
  /\ nesting' = [nesting EXCEPT !.block_dev = dev]
  /\ UNCHANGED << r1, r2, r3, tape, pos, card_pos, ctx_stack, boot_idx, err, last,
                  written, resolved, built_from, trace_sink, metrics >>

NextRuns ==
  \/ Next
  \/ \E dev \in ExecDevs : \E s \in StartIps(dev) : Restart(dev, s)

SpecRuns == InitRuns /\ [][NextRuns]_vars

(***************************************************************************)
(* The same machine with a trace sink and anomaly rules attached or not    *)
(* (set_trace_sink, add_anomaly_rule), on a choice of the initial tapes.   *)
(***************************************************************************)
TraceTapes ==
  {Tapes(DataWords(d0, -3) \o p, Lib1, DataDeck) :
     d0 \in {0, MAX_WORD}, p \in AluPrograms \cup ShiftPrograms \cup CtlPrograms}
  \cup {Tapes(DataWords(MAX_WORD, -1) \o << i, encode_instr("WRITE_TAPE", 0) >>, Lib1,
               DataDeck) : i \in GenInstrs}
  \cup {Tapes(DataWords(2, -3) \o BootProgram, Lib1, d) : d \in Decks}
  \cup {Tapes(DataWords(2, -3) \o p, Lib1, DataDeck) : p \in CallPrograms}

InitTrace ==
  /\ r1 = 0 /\ r2 = 0 /\ r3 = 0
  /\ tape \in TraceTapes
  /\ pos = [d \in DevNames |-> 0]
  /\ card_pos = 0
  /\ ctx_stack = << >>
  /\ current_dev = "none"
  /\ ip = None
  /\ boot_idx = 0
  /\ pc = "idle"
  /\ err = ""
  /\ runs = 0
  /\ last = [bits |-> None, dev |-> "none", ip |-> None, regs |-> << 0, 0, 0 >>]
  /\ written = << >>
  /\ resolved = NoCall
  /\ built_from = << >>
  /\ trace_sink \in {NoSink} \cup
       {[attached |-> TRUE, rules |-> k, collector |-> << >>] :
          k \in {"none", "hits", "raises"}}
  /\ metrics = NoMetrics
  /\ nesting = NoBlock

SpecTrace == InitTrace /\ [][Next]_vars

(***************************************************************************)
(* The library resolvers called directly on a constructed CPU, over        *)
(* generated libraries.                                                    *)
(***************************************************************************)
\* The function IDs, the namehashes and the queries of the generated libraries.
FnIds == {0, 1, 7}
NameHashes == {77, 78}
IdxQueries == 0..MaxEntries \cup FnIds \cup {8}
NameQueries == NameHashes \cup {79}

\* LibraryBuilder.build for functions fns = << << fn_id, namehash >>, ... >>,
\* each with the one-word body RET: header, TOC, then the function records.
LibOf(magic, fns) ==
  LET n == Len(fns)
      toc_start == 4
      fn_region_start == toc_start + n * 4
      length == 3 + 1
      start(i) == fn_region_start + (i - 1) * length
      toc(k) == LET fn == (k \div 4) + 1
                IN CASE k % 4 = 0 -> fns[fn][1] [] k % 4 = 1 -> fns[fn][2]
                     [] k % 4 = 2 -> start(fn) [] OTHER -> length
      rec(k) == CASE k % length = 0 -> FNHDR_MAGIC [] k % length = 3 -> encode_instr("RET", 0)
                  [] OTHER -> 0
  IN << magic, 1, n, toc_start >>
       \o [k \in 1..(n * 4) |-> toc(k - 1)]
       \o [k \in 1..(n * length) |-> rec(k - 1)]

GenLibs ==
  {LibOf(magic, fns) : magic \in {LIB_MAGIC, 0},
                       fns \in SeqsUpTo(FnIds \X NameHashes, MaxEntries)}

InitLib ==
  /\ r1 = 0 /\ r2 = 0 /\ r3 = 0
  /\ tape \in {Tapes(<< >>, lib, << >>) : lib \in GenLibs}
  /\ pos = [d \in DevNames |-> 0]
  /\ card_pos = 0
  /\ ctx_stack = << >>
  /\ current_dev = "none"
  /\ ip = None
  /\ boot_idx = 0
  /\ pc = "idle"
  /\ err = ""
  /\ runs = 0
  /\ last = [bits |-> None, dev |-> "none", ip |-> None, regs |-> << 0, 0, 0 >>]
  /\ written = << >>
  /\ resolved = NoCall
  /\ built_from = << >>
  /\ trace_sink = NoSink
  /\ metrics = NoMetrics
  /\ nesting = NoBlock

\* What a resolver's outcome res leaves behind: the outcome and the cursor of
\* the library tape.
Resolved(fn, arg, res) ==
  /\ resolved' = [fn |-> fn, arg |-> arg, err |-> res.err, addr |-> res.addr]
  /\ pos' = [pos EXCEPT !["library"] = res.last]
  /\ UNCHANGED << r1, r2, r3, tape, card_pos, ctx_stack, current_dev, ip, boot_idx, pc,
                  err, runs, last, written, built_from, trace_sink, metrics, nesting >>

\* cpu._lib_resolve_idx(val) and cpu._lib_resolve_name(namehash).
ResolveIdx(val) ==
  /\ pc = "idle"
  /\ Resolved("idx", val, _lib_resolve_idx(library, val))

ResolveName(namehash) ==
  /\ pc = "idle"
  /\ Resolved("name", namehash, _lib_resolve_name(library, namehash))

NextLib ==
  \/ \E val \in IdxQueries : ResolveIdx(val)
  \/ \E namehash \in NameQueries : ResolveName(namehash)

SpecLib == InitLib /\ [][NextLib]_vars

(***************************************************************************)
(* A second driver of the same state: TapeFile's reads and writes called   *)
(* directly on the scratchpad tape.                                        *)
(***************************************************************************)
TapeWords == {0, 1, SIGN_BIT, WORD_MASK}
TapeIndices == 0..MaxIndex
BitsArgs == TapeWords \cup {2^WORD_BITS + 1}
WordArgs == {0, 1, -1, MIN_WORD}

InitTape ==
  /\ r1 = 0 /\ r2 = 0 /\ r3 = 0
  /\ tape \in {Tapes(t, << >>, << >>) : t \in SeqsUpTo(TapeWords, MaxIndex - 1)}
  /\ pos = [d \in DevNames |-> 0]
  /\ card_pos = 0
  /\ ctx_stack = << >>
  /\ current_dev = "none"
  /\ ip = None
  /\ boot_idx = 0
  /\ pc = "idle"
  /\ err = ""
  /\ runs = 0
  /\ last = [bits |-> None, dev |-> "none", ip |-> None, regs |-> << 0, 0, 0 >>]
  /\ written = << >>
  /\ resolved = NoCall
  /\ built_from = << >>
  /\ trace_sink = NoSink
  /\ metrics = NoMetrics
  /\ nesting = NoBlock

\* What a call fn(index, ...) on the scratchpad tape leaves behind: the
\* records t, the cursor _mark_action sets, and the value returned.
TapeCalled(fn, index, value, t, res) ==
  /\ pc = "idle"
  /\ resolved' = [fn |-> fn, arg |-> << index, value >>, err |-> "", addr |-> res]
  /\ tape' = [tape EXCEPT !["scratchpad"] = t]
  /\ pos' = [pos EXCEPT !["scratchpad"] =
               Max(0, Min(Max(0, record_count(t) - 1), index))]
  /\ UNCHANGED << r1, r2, r3, card_pos, ctx_stack, current_dev, ip, boot_idx, pc, err,
                  runs, last, written, built_from, trace_sink, metrics, nesting >>

WriteBits(index, bits48) ==
  TapeCalled("write_bits", index, bits48, write_bits(scratchpad, index, bits48), None)

WriteWord(index, value) ==
  TapeCalled("write_word", index, value, write_word(scratchpad, index, value), None)

ReadBits(index) ==
  TapeCalled("read_bits", index, None, scratchpad, read_bits(scratchpad, index))

ReadWord(index) ==
  TapeCalled("read_word", index, None, scratchpad, read_word(scratchpad, index))

\* append_bits(bits48) and append_word(value): a write at the index
\* record_count, which both the write and the append mark. The tape is not
\* grown beyond MaxIndex + 1 records.
AppendBits(bits48) ==
  /\ Len(scratchpad) <= MaxIndex
  /\ TapeCalled("append_bits", Len(scratchpad), bits48, append_bits(scratchpad, bits48),
                Len(scratchpad))

AppendWord(value) ==
  /\ Len(scratchpad) <= MaxIndex
  /\ TapeCalled("append_word", Len(scratchpad), value, append_word(scratchpad, value),
                Len(scratchpad))

\* What a call that only moves the cursor leaves behind: st is the outcome,
\* the call is recorded with the position it found and its argument.
CursorMoved(fn, count, st) ==
  /\ pc = "idle"
  /\ resolved' = [fn |-> fn, arg |-> << pos["scratchpad"], count >>, err |-> "",
                  addr |-> None]
  /\ pos' = st.pos
  /\ UNCHANGED << r1, r2, r3, tape, card_pos, ctx_stack, current_dev, ip, boot_idx, pc,
                  err, runs, last, written, built_from, trace_sink, metrics, nesting >>

\* rewind() and fast_forward(count) on the scratchpad tape.
Rewind == CursorMoved("rewind", None, _mark_action(St, "scratchpad", 0))

FastForward(count) ==
  CursorMoved("fast_forward", count, fast_forward(St, "scratchpad", count))

FFCounts == {-1, 0, 1, 2, MaxIndex + 2}

NextTape ==
  \/ \E index \in TapeIndices : \E bits48 \in BitsArgs : WriteBits(index, bits48)
  \/ \E index \in TapeIndices : \E value \in WordArgs : WriteWord(index, value)
  \/ \E index \in 0..(MaxIndex + 1) : ReadBits(index)
  \/ \E index \in 0..(MaxIndex + 1) : ReadWord(index)
  \/ \E bits48 \in BitsArgs : AppendBits(bits48)
  \/ \E value \in WordArgs : AppendWord(value)
  \/ Rewind
  \/ \E count \in FFCounts : FastForward(count)

SpecTape == InitTape /\ [][NextTape]_vars

(***************************************************************************)
(* A third driver: encode_instr and decode_op called directly, on every    *)
(* mnemonic and every operand the operand field holds.                     *)
(***************************************************************************)
Mnemonics == DOMAIN OP
Operands == (-(2^(OPR_BITS - 1)))..(2^(OPR_BITS - 1) - 1)

\* Every mode, flags and value the three fields of a CALL operand hold.
CallModes == 0..(2^MODE_BITS - 1)
CallFlagSets == 0..(2^FLAG_BITS - 1)
CallValues == 0..(2^VALUE_BITS - 1)

InitEnc ==
  /\ r1 = 0 /\ r2 = 0 /\ r3 = 0
  /\ tape = Tapes(<< >>, << >>, << >>)
  /\ pos = [d \in DevNames |-> 0]
  /\ card_pos = 0
  /\ ctx_stack = << >>
  /\ current_dev = "none"
  /\ ip = None
  /\ boot_idx = 0
  /\ pc = "idle"
  /\ err = ""
  /\ runs = 0
  /\ last = [bits |-> None, dev |-> "none", ip |-> None, regs |-> << 0, 0, 0 >>]
  /\ written = << >>
  /\ resolved \in {[fn |-> "input", arg |-> << m, v >>, err |-> "", addr |-> None] :
                    m \in Mnemonics, v \in Operands}
                  \cup {[fn |-> "call_input", arg |-> << mode, flags, value >>,
                         err |-> "", addr |-> None] :
                          mode \in CallModes, flags \in CallFlagSets,
                          value \in CallValues}
  /\ built_from = << >>
  /\ trace_sink = NoSink
  /\ metrics = NoMetrics
  /\ nesting = NoBlock

\* encode_instr(op_name, operand) of the input drawn: the word is kept for
\* decode_op.
EncodeInstr ==
  /\ resolved.fn = "input"
  /\ resolved' = [resolved EXCEPT !.fn = "encode_instr",
                                  !.addr = encode_instr(resolved.arg[1], resolved.arg[2])]
  /\ UNCHANGED << r1, r2, r3, tape, pos, card_pos, ctx_stack, current_dev, ip, boot_idx,
                  pc, err, runs, last, written, built_from, trace_sink, metrics, nesting >>

\* decode_op of the word encode_instr returned.
DecodeOp ==
  /\ resolved.fn = "encode_instr"
  /\ resolved' = [resolved EXCEPT !.fn = "decode_op", !.addr = decode_op(@)]
  /\ UNCHANGED << r1, r2, r3, tape, pos, card_pos, ctx_stack, current_dev, ip, boot_idx,
                  pc, err, runs, last, written, built_from, trace_sink, metrics, nesting >>

\* encode_instr("CALL", pack_call_operand(mode, flags, value)) of the input
\* drawn.
EncodeCall ==
  /\ resolved.fn = "call_input"
  /\ resolved' = [resolved EXCEPT
                    !.fn = "encode_call",
                    !.addr = encode_instr("CALL", pack_call_operand(resolved.arg[1],
                                                                    resolved.arg[2],
                                                                    resolved.arg[3]))]
  /\ UNCHANGED << r1, r2, r3, tape, pos, card_pos, ctx_stack, current_dev, ip, boot_idx,
                  pc, err, runs, last, written, built_from, trace_sink, metrics, nesting >>

\* The CALL handler's unpacking of the operand of that word (cpu.py:619-621).
UnpackCall ==
  /\ resolved.fn = "encode_call"
  /\ resolved' = [resolved EXCEPT
                    !.fn = "call_unpack",
                    !.addr = << CallMode(decode_op(@)[2]), CallFlags(decode_op(@)[2]),
                                CallValue(decode_op(@)[2]) >>]
  /\ UNCHANGED << r1, r2, r3, tape, pos, card_pos, ctx_stack, current_dev, ip, boot_idx,
                  pc, err, runs, last, written, built_from, trace_sink, metrics, nesting >>

NextEnc ==
  \/ EncodeInstr
  \/ DecodeOp
  \/ EncodeCall
  \/ UnpackCall

SpecEnc == InitEnc /\ [][NextEnc]_vars

(***************************************************************************)
(* lib_builder.py: LibraryBuilder.build over parsed functions and globals, *)
(* and the engine's resolvers called on the tape it wrote.                 *)
(***************************************************************************)
VERSION == 1
ABI_VER == 1

\* A function record: FNHDR_MAGIC, FN_META (no arguments, returns r1, no
\* clobbers), RESERVED, then the body.
FnRecord(fn) ==
  << FNHDR_MAGIC, (ABI_VER * 2^OPR_BITS) % 2^WORD_BITS, 0 >> \o fn.body

\* fn.start of function number i (from 1): the functions lie one behind the
\* other after the TOC; number Len(functions) + 1 gives fn_region_end.
RECURSIVE FnStart(_, _)
FnStart(functions, i) ==
  IF i = 1 THEN 4 + Len(functions) * 4
  ELSE FnStart(functions, i - 1) + 3 + Len(functions[i - 1].body)

\* The TOC: four words (ID, NAMEHASH, START, LENGTH) for each function.
TocWords(functions) ==
  [k \in 1..(Len(functions) * 4) |->
     LET i == ((k - 1) \div 4) + 1
     IN (CASE (k - 1) % 4 = 0 -> functions[i].fn_id
           [] (k - 1) % 4 = 1 -> functions[i].namehash
           [] (k - 1) % 4 = 2 -> FnStart(functions, i)
           [] OTHER -> 3 + Len(functions[i].body)) % 2^WORD_BITS]

RECURSIVE FnRecords(_)
FnRecords(functions) ==
  IF functions = << >> THEN << >>
  ELSE FnRecord(Head(functions)) \o FnRecords(Tail(functions))

\* f.seek(addr * BYTE_PER_WORD); f.write(word): the file grows with zero
\* words up to addr when addr lies behind its end.
SeekWrite(lib, addr, bits) ==
  IF addr < Len(lib) THEN [lib EXCEPT ![addr + 1] = bits % 2^WORD_BITS]
  ELSE lib \o [k \in 1..(addr - Len(lib)) |-> 0] \o << bits % 2^WORD_BITS >>

RECURSIVE WriteGlobals(_, _)
WriteGlobals(lib, globals) ==
  IF globals = << >> THEN lib
  ELSE WriteGlobals(SeekWrite(lib, Head(globals)[1], Head(globals)[2]), Tail(globals))

\* build(out_path): a global inside the function region raises before the
\* file is created; one below fn_region_start only prints a warning.
build(functions, globals) ==
  IF \E g \in 1..Len(globals) :
       /\ FnStart(functions, 1) <= globals[g][1]
       /\ globals[g][1] < FnStart(functions, Len(functions) + 1)
  THEN [err |-> "ValueError", lib |-> << >>]
  ELSE [err |-> "",
        lib |-> WriteGlobals(<< LIB_MAGIC, VERSION, Len(functions), 4 >>
                               \o TocWords(functions) \o FnRecords(functions),
                             globals)]

\* The functions and globals the builder is given: up to MaxFns functions
\* with bodies of zero to two instructions, IDs and namehashes that may
\* repeat, and at most one global, anywhere from address 0 to just behind the
\* function region.
BuildBodies ==
  { << >>, << encode_instr("RET", 0) >>,
    << encode_instr("NOP", 0), encode_instr("RET", 0) >> }
BuildFns ==
  SeqsUpTo({[fn_id |-> i, namehash |-> h, body |-> b] :
              i \in {0, 7}, h \in NameHashes, b \in BuildBodies}, MaxFns)
BuildInputs ==
  UNION { {[functions |-> fns, globals |-> << >>]}
            \cup {[functions |-> fns, globals |-> << << a, 7 >> >>] :
                    a \in 0..(FnStart(fns, Len(fns) + 1) + 1)} : fns \in BuildFns }

InitBuild ==
  /\ r1 = 0 /\ r2 = 0 /\ r3 = 0
  /\ tape = Tapes(<< >>, << >>, << >>)
  /\ pos = [d \in DevNames |-> 0]
  /\ card_pos = 0
  /\ ctx_stack = << >>
  /\ current_dev = "none"
  /\ ip = None
  /\ boot_idx = 0
  /\ pc = "idle"
  /\ err = ""
  /\ runs = 0
  /\ last = [bits |-> None, dev |-> "none", ip |-> None, regs |-> << 0, 0, 0 >>]
  /\ written = << >>
  /\ resolved = NoCall
  /\ built_from \in BuildInputs
  /\ trace_sink = NoSink
  /\ metrics = NoMetrics
  /\ nesting = NoBlock

\* LibraryBuilder(text).parse() has been done; build(out_path) writes the
\* library tape or raises.
Build ==
  /\ pc = "idle"
  /\ LET res == build(built_from.functions, built_from.globals)
     IN /\ tape' = [tape EXCEPT !["library"] = res.lib]
        /\ err' = res.err
        /\ pc' = IF res.err = "" THEN "built" ELSE "fatal"
  /\ UNCHANGED << r1, r2, r3, pos, card_pos, ctx_stack, current_dev, ip, boot_idx, runs,
                  last, written, resolved, built_from, trace_sink, metrics, nesting >>

\* cpu._lib_resolve_idx(val) and cpu._lib_resolve_name(namehash) on the tape
\* the builder wrote.
ResolveBuiltIdx(val) ==
  /\ pc = "built"
  /\ Resolved("idx", val, _lib_resolve_idx(library, val))

ResolveBuiltName(namehash) ==
  /\ pc = "built"
  /\ Resolved("name", namehash, _lib_resolve_name(library, namehash))

NextBuild ==
  \/ Build
  \/ \E val \in 0..MaxFns : ResolveBuiltIdx(val)
  \/ \E namehash \in NameQueries : ResolveBuiltName(namehash)

SpecBuild == InitBuild /\ [][NextBuild]_vars

(***************************************************************************)
(* Properties.                                                             *)
(***************************************************************************)
\* The block executor is about to execute the word at ip.
InBlock == pc = "block" /\ ip < record_count(tape[current_dev])

\* The boot loader is about to execute an even-numbered card.
OnEvenCard == pc = "boot" /\ boot_idx % 2 = 0 /\ CardNext(St) # None

\* The word about to be executed, its opcode and its operand field.
ExecBits ==
  IF InBlock THEN read_bits(tape[current_dev], ip)
  ELSE IF OnEvenCard THEN to_twos_complement(CardNext(St))
  ELSE None
ExecOp == IF ExecBits = None THEN None ELSE decode_op(ExecBits)[1]
ExecOpr == IF ExecBits = None THEN None ELSE decode_op(ExecBits)[2]

\* The opcode of the word executed last.
LastOp == IF last.bits = None THEN None ELSE decode_op(last.bits)[1]

\* What the CALL branch of execute_encoded, taken by itself, makes of the
\* word about to be executed.
CallOutcome == ExecCall(Touch(St, current_dev, ip), current_dev, ExecOpr, ip)

\* C1: a CALL executed while device D is active pushes a frame that names D,
\* and a RET executed with a non-empty context stack pops exactly the top
\* frame, makes the frame's device the active one and continues at the
\* frame's return index, so that every pushed frame is popped by at most one
\* RET.
C1_CallRetPairing ==
  [][/\ (InBlock /\ ExecOp = OP["CALL"] /\ CallOutcome.err = "")
          => /\ Len(ctx_stack') = Len(ctx_stack) + 1
             /\ SubSeq(ctx_stack', 1, Len(ctx_stack)) = ctx_stack
             /\ ctx_stack'[Len(ctx_stack')][1] = current_dev
     /\ (InBlock /\ ExecOp = OP["RET"] /\ ctx_stack # << >>)
          => /\ ctx_stack' = SubSeq(ctx_stack, 1, Len(ctx_stack) - 1)
             /\ current_dev' = ctx_stack[Len(ctx_stack)][1]
             /\ ip' = ctx_stack[Len(ctx_stack)][2]
             /\ pc' = "block"]_vars

\* The immediate words a CALL operand asks for.
CallExtras(opr_bits) ==
  (IF CallMode(opr_bits) = CALL_MODE_LIB_NAME THEN 1 ELSE 0)
    + (IF BitAnd(CallFlags(opr_bits), CALL_FLAG_PB, FLAG_BITS) # 0 THEN 1 ELSE 0)

\* C2: a CALL at index ip whose immediates and target resolve pushes the
\* return index ip + 1 + extras, where extras counts one word for LIB_NAME
\* and one for the PB flag.
C2_CallReturnIndex ==
  [][(InBlock /\ ExecOp = OP["CALL"] /\ CallOutcome.err = "")
       => ctx_stack' = Append(ctx_stack, << current_dev, ip + 1 + CallExtras(ExecOpr) >>)
     ]_vars

\* C3: no step changes a word of the library tape or its record count.
C3_LibraryReadOnly == [][tape'["library"] = tape["library"]]_vars

\* The paper tape read as signed words.
PaperWords == [i \in 1..Len(paper) |-> from_twos_complement(paper[i])]

\* C4: the paper tape always holds exactly the r3 values of the WRITE_TAPE
\* instructions executed so far, in execution order; a WRITE_TAPE step appends
\* one record holding r3 at the previous record count, and every other step
\* leaves the paper tape as it is.
C4_PaperAppendOnly ==
  /\ [](PaperWords = written)
  /\ [][IF (InBlock \/ OnEvenCard) /\ ExecOp = OP["WRITE_TAPE"]
        THEN /\ paper' = Append(paper, to_twos_complement(r3))
             /\ Len(paper') = Len(paper) + 1
        ELSE paper' = paper]_vars

\* A run that ended after two WRITE_TAPEs of different values.
C4_Witness ==
  /\ pc = "done" /\ LastOp = OP["WRITE_TAPE"]
  /\ Len(paper) = 2 /\ paper[1] # paper[2]
  /\ PaperWords = << 0, r3 >>

\* The opcodes the opcode map assigns to a mnemonic.
AssignedOps == {OP[k] : k \in DOMAIN OP}

\* C5: executing a word whose opcode the opcode map assigns to no mnemonic
\* raises nothing, continues the block at ip + 1 and leaves the registers,
\* the context stack, the active device and all tapes unchanged.
C5_UnknownOpcodeIsNop ==
  [][(InBlock /\ ExecOp \notin AssignedOps)
       => /\ pc' = "block" /\ err' = "" /\ ip' = ip + 1
          /\ UNCHANGED << r1, r2, r3, ctx_stack, current_dev, tape >>]_vars

\* The block executor is at one of the three ends of a block.
BlockEnds ==
  \/ ~InBlock
  \/ ExecOp = OP["HALT"]
  \/ ExecOp = OP["RET"] /\ ctx_stack = << >>

\* C6: a block ends, without error, exactly at the first of a HALT, a RET
\* executed with an empty context stack, or an index at or beyond the end of
\* the active device; a word is executed only at an index below the record
\* count.
C6_BlockTermination ==
  [][pc = "block"
       => /\ BlockEnds => (pc' = "done" /\ err' = "")
          /\ ~BlockEnds => pc' # "done"
          /\ ~InBlock => last' = last]_vars

\* C7: a RET executed with an empty context stack pops nothing, ends the
\* block without error and leaves r1, r2, r3, the active device and the paper
\* tape unchanged.
C7_RetOnEmptyStack ==
  [][(InBlock /\ ExecOp = OP["RET"] /\ ctx_stack = << >>)
       => /\ pc' = "done" /\ err' = "" /\ ctx_stack' = << >>
          /\ UNCHANGED << r1, r2, r3, current_dev >>
          /\ paper' = paper]_vars

\* C8: each of r1, r2, r3 is a signed word in [MIN_WORD, MAX_WORD] in every
\* reachable state.
C8_RegistersInRange ==
  /\ r1 \in MIN_WORD..MAX_WORD
  /\ r2 \in MIN_WORD..MAX_WORD
  /\ r3 \in MIN_WORD..MAX_WORD

\* An ADD of two maximal words has saturated.
C8_Witness ==
  /\ LastOp = OP["ADD"] /\ err = ""
  /\ r1 = MAX_WORD /\ r2 = MAX_WORD

\* A bit pattern of one word read as a signed word.
Signed(u) == IF u >= 2^(WORD_BITS - 1) THEN u - 2^WORD_BITS ELSE u

\* C9: MUL leaves in (r1, r2) the high and low words, each read as signed, of
\* the double-width two's-complement encoding of the exact product r2 * r3;
\* r3 is unchanged and a block continues at ip + 1.
C9_MulExactPair ==
  [][((InBlock \/ OnEvenCard) /\ ExecOp = OP["MUL"])
       => /\ r1' = Signed(((r2 * r3) % 2^PAIR_BITS) \div 2^WORD_BITS)
          /\ r2' = Signed(((r2 * r3) % 2^PAIR_BITS) % 2^WORD_BITS)
          /\ r3' = r3 /\ err' = ""
          /\ InBlock => (pc' = "block" /\ ip' = ip + 1)]_vars

\* A MUL of the two most negative words has been executed.
C9_Witness ==
  /\ LastOp = OP["MUL"] /\ err = ""
  /\ r3 = MIN_WORD /\ r1 = 2^(WORD_BITS - 2) /\ r2 = 0

\* The signed double-width value held in a register pair.
Q94(hi, lo) == hi * 2^WORD_BITS + (lo % 2^WORD_BITS)

\* q / 2^FRAC_BITS rounded to the nearest integer, ties away from zero.
RoundHalfAway(q) ==
  IF q >= 0 THEN (q + 2^(FRAC_BITS - 1)) \div 2^FRAC_BITS
  ELSE -((-q + 2^(FRAC_BITS - 1)) \div 2^FRAC_BITS)

\* C10: ROUND sets r1 to the value held in (r1, r2) divided by 2^FRAC_BITS,
\* rounded to nearest with ties away from zero and saturated to
\* [MIN_WORD, MAX_WORD], for negative and non-negative values alike, and sets
\* r2 to 0.
C10_RoundHalfAwayFromZero ==
  [][((InBlock \/ OnEvenCard) /\ ExecOp = OP["ROUND"])
       => /\ r1' = Max(MIN_WORD, Min(MAX_WORD, RoundHalfAway(Q94(r1, r2))))
          /\ r2' = 0]_vars

\* A word of a boot card or of a block is about to be executed.
Executing == InBlock \/ OnEvenCard

\* The word about to be executed directly follows the one executed last.
FollowsLast == InBlock /\ last.dev = current_dev /\ last.ip = ip - 1

Abs(x) == IF x < 0 THEN -x ELSE x

\* C11: MUL leaves the exact product r2 * r3 in the pair (r1, r2), and when
\* that product divided by 2^FRAC_BITS lies within [MIN_WORD, MAX_WORD], the
\* ROUND that directly follows the MUL leaves in r1 an integer within 1 of
\* the exact quotient, for products of either sign.
C11_MulRoundOneUlp ==
  [][/\ (Executing /\ ExecOp = OP["MUL"]) => Q94(r1', r2') = r2 * r3
     /\ (FollowsLast /\ ExecOp = OP["ROUND"] /\ LastOp = OP["MUL"]
           /\ Q94(r1, r2) >= MIN_WORD * 2^FRAC_BITS
           /\ Q94(r1, r2) <= MAX_WORD * 2^FRAC_BITS)
          => Abs(r1' * 2^FRAC_BITS - Q94(r1, r2)) <= 2^FRAC_BITS]_vars

\* num / d >= k and num / d < k over the rationals, d # 0.
DivGe(num, k, d) == IF d > 0 THEN num >= k * d ELSE num <= k * d
DivLt(num, k, d) == IF d > 0 THEN num < k * d ELSE num > k * d

\* C12: DIV leaves r2 and r3 unchanged; with r2 = 0 it sets r1 to MAX_WORD
\* when r1 >= 0 and to MIN_WORD when r1 < 0; with r2 # 0 it sets r1 to the
\* floor of (r1 * 2^FRAC_BITS) / r2 clamped to [MIN_WORD, MAX_WORD].
C12_DivFloorClamp ==
  [][(Executing /\ ExecOp = OP["DIV"])
       => /\ r2' = r2 /\ r3' = r3 /\ err' = ""
          /\ r2 = 0 => r1' = (IF r1 >= 0 THEN MAX_WORD ELSE MIN_WORD)
          /\ r2 # 0 => /\ r1' \in MIN_WORD..MAX_WORD
                       /\ r1' > MIN_WORD => DivGe(r1 * 2^FRAC_BITS, r1', r2)
                       /\ r1' < MAX_WORD => DivLt(r1 * 2^FRAC_BITS, r1' + 1, r2)]_vars

\* A DIV of 1 by -3 has been executed: an inexact negative quotient.
C12_Witness ==
  /\ LastOp = OP["DIV"] /\ err = ""
  /\ r2 = -3 /\ r1 = -(2^FRAC_BITS \div 3) - 1

\* x saturated to [MIN_WORD, MAX_WORD].
Sat(x) == Max(MIN_WORD, Min(MAX_WORD, x))

\* The instruction about to be executed raises nothing and execution goes on:
\* a block continues at ip + 1, the boot loader with the next card.
Continues ==
  /\ err' = ""
  /\ InBlock => (pc' = "block" /\ ip' = ip + 1 /\ current_dev' = current_dev)
  /\ OnEvenCard => pc' = "boot"

\* C13: ADD writes r1 + r2 saturated and NEG writes -r1 saturated (NEG of
\* MIN_WORD gives MAX_WORD); ADD, NEG and DIV, overflowing or dividing by
\* zero or not, raise nothing and continue at ip + 1.
C13_SaturationNonFatal ==
  [][/\ (Executing /\ ExecOp = OP["ADD"]) => (r1' = Sat(r1 + r2) /\ Continues)
     /\ (Executing /\ ExecOp = OP["NEG"]) => (r1' = Sat(-r1) /\ Continues)
     /\ (Executing /\ ExecOp = OP["NEG"] /\ r1 = MIN_WORD) => r1' = MAX_WORD
     /\ (Executing /\ ExecOp = OP["DIV"]) => Continues]_vars

\* An ADD of two minimal words saturated, the NEG after it negated the
\* minimal word, and the block goes on behind the NEG.
C13_Witness ==
  /\ LastOp = OP["NEG"] /\ err = "" /\ pc = "block" /\ ip = last.ip + 1
  /\ r2 = MIN_WORD /\ r1 = MAX_WORD
  /\ read_bits(tape[last.dev], last.ip - 1) = encode_instr("ADD", 0)

\* The parameter block of the CALL about to be executed: its address A (the
\* immediate behind the namehash, if any), the signed scratchpad word A[i] and
\* the argument count n.
PbAddr ==
  read_bits(tape[current_dev],
            ip + 1 + (IF CallMode(ExecOpr) = CALL_MODE_LIB_NAME THEN 1 ELSE 0))
PbWord(i) == read_word(scratchpad, PbAddr + i)
PbArgs == Max(0, PbWord(0))

\* C14: a CALL with the PB flag sets r1, r2, r3 from A[1], A[2], A[3] as far
\* as the count n = A[0] reaches and leaves the others unchanged; for n > 3
\* it copies A[4..n] in order to the scratchpad from PB_SHADOW_BASE on, and
\* for n <= 3 it writes nothing to the scratchpad.
C14_ParameterBlock ==
  [][(InBlock /\ ExecOp = OP["CALL"] /\ CallOutcome.err = ""
        /\ BitAnd(CallFlags(ExecOpr), CALL_FLAG_PB, FLAG_BITS) # 0)
       => /\ r1' = (IF PbArgs >= 1 THEN PbWord(1) ELSE r1)
          /\ r2' = (IF PbArgs >= 2 THEN PbWord(2) ELSE r2)
          /\ r3' = (IF PbArgs >= 3 THEN PbWord(3) ELSE r3)
          /\ PbArgs > 3 =>
               \A j \in 0..(PbArgs - 4) :
                 read_word(tape'["scratchpad"], PB_SHADOW_BASE + j) = PbWord(4 + j)
          /\ PbArgs <= 3 => tape'["scratchpad"] = scratchpad]_vars

\* The library read word by word: its entry count and field k of TOC entry i
\* (0 the function ID, 1 the namehash, 2 the start of the function record).
TocCount == library[3]
TocAt(i, k) == library[library[4] + 4 * i + k + 1]
LowestOf(S) == CHOOSE i \in S : \A j \in S : i <= j

\* C15: on a library with the right magic, resolve_idx(v) answers START + 3
\* of TOC entry number v whenever v < ENTRY_COUNT, whatever the function IDs
\* are; otherwise START + 3 of the first entry whose FN_ID is v; and when
\* there is none it fails with the not-found error.
C15_ResolveIdx ==
  (resolved.fn = "idx" /\ library[1] = LIB_MAGIC)
    => LET v == resolved.arg
           byId == {i \in 0..(TocCount - 1) : TocAt(i, 0) = v}
       IN IF v < TocCount
          THEN resolved.err = "" /\ resolved.addr = TocAt(v, 2) + 3
          ELSE IF byId # {}
          THEN resolved.err = "" /\ resolved.addr = TocAt(LowestOf(byId), 2) + 3
          ELSE resolved.err = "IndexError" /\ resolved.addr = None

\* resolve_idx(v) has answered with entry number v although only another
\* entry has the function ID v.
C15_Witness ==
  /\ resolved.fn = "idx" /\ library[1] = LIB_MAGIC /\ resolved.err = ""
  /\ resolved.arg < TocCount
  /\ TocAt(resolved.arg, 0) # resolved.arg
  /\ \E j \in 0..(TocCount - 1) : TocAt(j, 0) = resolved.arg
  /\ resolved.addr = TocAt(resolved.arg, 2) + 3

\* C16: on a library with the right magic, resolve_name(h) answers START + 3
\* (the first body word, past the three-word function header) of the
\* lowest-numbered TOC entry whose NAMEHASH is h, and fails with the not-found
\* error when none of the ENTRY_COUNT entries matches.
C16_ResolveName ==
  (resolved.fn = "name" /\ library[1] = LIB_MAGIC)
    => LET byName == {i \in 0..(TocCount - 1) : TocAt(i, 1) = resolved.arg}
       IN IF byName # {}
          THEN /\ resolved.err = ""
               /\ resolved.addr = TocAt(LowestOf(byName), 2) + 3
               /\ library[resolved.addr - 3 + 1] = FNHDR_MAGIC
               /\ library[resolved.addr + 1] = encode_instr("RET", 0)
          ELSE resolved.err = "KeyError" /\ resolved.addr = None

\* resolve_name(h) has answered with the first of two entries that share h.
C16_Witness ==
  /\ resolved.fn = "name" /\ library[1] = LIB_MAGIC /\ resolved.err = ""
  /\ \E i, j \in 0..(TocCount - 1) :
       /\ i < j /\ TocAt(i, 1) = resolved.arg /\ TocAt(j, 1) = resolved.arg
       /\ \A k \in 0..(i - 1) : TocAt(k, 1) # resolved.arg
       /\ resolved.addr = TocAt(i, 2) + 3

\* The CALL about to be executed cannot be resolved: the library's word 0 is
\* not the magic constant, or no TOC entry has the index, ID or namehash, or
\* the mode is none of the four.
CallUnresolvable ==
  LET mode == CallMode(ExecOpr)
      value == CallValue(ExecOpr)
      namehash == read_bits(tape[current_dev], ip + 1)
      entries == 0..(TocCount - 1)
  IN \/ mode \in {CALL_MODE_LIB_IDX, CALL_MODE_LIB_NAME}
          /\ read_bits(library, 0) # LIB_MAGIC
     \/ mode = CALL_MODE_LIB_IDX /\ read_bits(library, 0) = LIB_MAGIC
          /\ value >= TocCount /\ \A i \in entries : TocAt(i, 0) # value
     \/ mode = CALL_MODE_LIB_NAME /\ read_bits(library, 0) = LIB_MAGIC
          /\ namehash # None /\ \A i \in entries : TocAt(i, 1) # namehash
     \/ mode > CALL_MODE_LIB_NAME

\* C17: a CALL against a library with a wrong magic word (modes LIB_IDX and
\* LIB_NAME), a CALL whose index, ID or namehash is not found and a CALL with
\* an unknown mode each end in a fatal error, push no frame and leave the
\* active device unchanged.
C17_CallErrorsFatal ==
  [][(InBlock /\ ExecOp = OP["CALL"] /\ CallUnresolvable)
       => /\ pc' = "fatal" /\ err' # ""
          /\ ctx_stack' = ctx_stack
          /\ current_dev' = current_dev]_vars

\* A CALL by index against a library with a wrong magic word has ended the
\* run.
C17_Witness ==
  /\ pc = "fatal" /\ err # "" /\ LastOp = OP["CALL"]
  /\ CallMode(decode_op(last.bits)[2]) = CALL_MODE_LIB_IDX
  /\ read_bits(library, 0) # LIB_MAGIC
  /\ ctx_stack = << >> /\ current_dev = last.dev

\* The opcodes of the instructions whose operand is an address.
AddrOps == {OP[m] : m \in AddrNames}

\* C18: a LOAD, STORE, SLOAD, TXR or JUMP whose operand field has its sign
\* bit set ends in a fatal error and changes no register and no tape word.
C18_NegativeOperandFatal ==
  [][(Executing /\ ExecOp \in AddrOps /\ ExecOpr >= 2^(OPR_BITS - 1))
       => /\ pc' = "fatal" /\ err' # ""
          /\ UNCHANGED << r1, r2, r3, tape >>]_vars

\* A LOAD_R2 with a negative operand has ended the run with a ValueError.
C18_Witness ==
  /\ pc = "fatal" /\ err = "ValueError" /\ LastOp = OP["LOAD_R2"]
  /\ decode_op(last.bits)[2] >= 2^(OPR_BITS - 1)
  /\ r2 = 0

\* The bits of the last item of items that targets address a.
LastBits(items, a) ==
  LET I == {i \in 1..Len(items) : items[i][2] = a}
  IN items[CHOOSE i \in I : \A j \in I : j <= i][1]

\* The pair the card being processed belongs to.
PairIdx == (boot_idx + 1) \div 2

\* The cards deck is the one CardsBuilder builds from built_from.
BuiltDeck == cards = BuildDeck(built_from, 0)

\* C19: booting a deck that CardsBuilder built from items (bits_i, addr_i)
\* on an empty scratchpad refines writing the items with write_bits: every
\* odd card sets r1 to the signed value of bits_i, every even STORE_R1 card
\* writes r1 as one write_bits(addr_i, bits_i), and when card processing
\* stops the scratchpad is write_scratchpad of the items, so it holds bits_i
\* at every addr_i, the last pair for an address winning.
C19_BootRefinesWriteBits ==
  [][(pc = "boot" /\ BuiltDeck) =>
       /\ (boot_idx % 2 = 1 /\ PairIdx <= Len(built_from))
            => /\ r1' = from_twos_complement(built_from[PairIdx][1])
               /\ scratchpad' = scratchpad
               /\ pc' = "boot"
       /\ (boot_idx % 2 = 0 /\ PairIdx <= Len(built_from))
            => /\ scratchpad' = write_bits(scratchpad, built_from[PairIdx][2],
                                           built_from[PairIdx][1])
               /\ pc' = "boot"
       /\ pc' # "boot"
            => /\ scratchpad' = write_scratchpad(<< >>, built_from)
               /\ \A i \in 1..Len(built_from) :
                    read_bits(scratchpad', built_from[i][2])
                      = LastBits(built_from, built_from[i][2])]_vars

\* Card processing has stopped on a built deck whose two items target the
\* same address with different words, the first with its sign bit set.
C19_Witness ==
  /\ boot_idx > 0 /\ pc # "boot" /\ BuiltDeck
  /\ built_from = << << SIGN_BIT, 1 >>, << WORD_MASK, 1 >> >>
  /\ scratchpad = << 0, WORD_MASK >>

\* The even card about to be executed carries an address instruction whose
\* operand is negative (the fatal error of C18).
NegAddrCard == ExecOp \in AddrOps /\ ExecOpr >= 2^(OPR_BITS - 1)

\* C20: during boot the block executor is entered if and only if an
\* even-numbered card is a TXR; it is then entered on the scratchpad at the
\* TXR operand, for every operand >= 0 including 0.  Every other even card
\* (STORE_R1, HALT, JUMP, ...) is executed once and boot continues with the
\* next card; an odd card never leaves the boot loader.
C20_BootTxrHandOver ==
  [][/\ (OnEvenCard /\ ExecOp = OP["TXR"] /\ ~NegAddrCard)
          => /\ pc' = "block" /\ current_dev' = "scratchpad" /\ ip' = ExecOpr
             /\ card_pos' = card_pos + 1
     /\ (OnEvenCard /\ ExecOp # OP["TXR"] /\ ~NegAddrCard)
          => /\ pc' = "boot" /\ boot_idx' = boot_idx + 1
             /\ card_pos' = card_pos + 1
     /\ (pc = "boot" /\ ~OnEvenCard) => pc' # "block"]_vars

\* C21: in a block, SKIP_IF_ZERO at index ip continues at ip + 2 if and only
\* if r1 = 0 and at ip + 1 otherwise, SKIP_IF_NONZERO continues at ip + 2 if
\* and only if r1 # 0, and SKIP always continues at ip + 2; none of them
\* changes a register, and r2, r3 have no part in the outcome.
C21_SkipSemantics ==
  [][(InBlock /\ ExecOp \in {OP["SKIP"], OP["SKIP_IF_ZERO"], OP["SKIP_IF_NONZERO"]})
       => /\ pc' = "block"
          /\ ip' = IF \/ ExecOp = OP["SKIP"]
                      \/ ExecOp = OP["SKIP_IF_ZERO"] /\ r1 = 0
                      \/ ExecOp = OP["SKIP_IF_NONZERO"] /\ r1 # 0
                   THEN ip + 2 ELSE ip + 1
          /\ UNCHANGED << r1, r2, r3 >>]_vars

\* The operand of the word about to be executed is a non-negative address.
NonNegOpr == ExecOpr < 2^(OPR_BITS - 1)

\* C22: TXR and JUMP with operand t >= 0 executed inside a block make t the
\* next index and leave the active device, the context stack and the
\* registers unchanged, on the scratchpad and on the library alike.
C22_TxrJumpInBlock ==
  [][(InBlock /\ ExecOp \in {OP["TXR"], OP["JUMP"]} /\ NonNegOpr)
       => /\ pc' = "block" /\ ip' = ExecOpr
          /\ UNCHANGED << current_dev, ctx_stack, r1, r2, r3 >>]_vars

\* The register a load with opcode op writes, and the registers after a load
\* of value v into it.
LoadReg(op) ==
  CASE op \in {OP["LOAD_R1"], OP["SLOAD_R1"]} -> 1
    [] op \in {OP["LOAD_R2"], OP["SLOAD_R2"]} -> 2
    [] op \in {OP["LOAD_R3"], OP["SLOAD_R3"]} -> 3
Loaded(op, v) == [<< r1, r2, r3 >> EXCEPT ![LoadReg(op)] = v]

\* C23: SLOAD_Rn with address a >= 0 sets rN to the signed word at
\* scratchpad index a whatever the active device is, LOAD_Rn with the same
\* address reads index a of the active device, and neither changes the other
\* two registers.
C23_SloadReadsScratchpad ==
  [][/\ (InBlock /\ ExecOp \in {OP["SLOAD_R1"], OP["SLOAD_R2"], OP["SLOAD_R3"]}
           /\ NonNegOpr)
          => << r1, r2, r3 >>' = Loaded(ExecOp, read_word(scratchpad, ExecOpr))
     /\ (InBlock /\ ExecOp \in {OP["LOAD_R1"], OP["LOAD_R2"], OP["LOAD_R3"]}
           /\ NonNegOpr)
          => << r1, r2, r3 >>' = Loaded(ExecOp, read_word(tape[current_dev], ExecOpr))]_vars

\* The PAIR_BITS-wide pattern of the register pair (a, b).
PairOf(a, b) == to_twos_complement(a) * 2^WORD_BITS + to_twos_complement(b)

\* A SHIFT_LEFT by k is about to be executed right behind a SHIFT_RIGHT by
\* the same k, 0 <= k < PAIR_BITS.
ShiftBack ==
  /\ InBlock /\ ExecOp = OP["SHIFT_LEFT"] /\ ExecOpr < PAIR_BITS
  /\ LastOp = OP["SHIFT_RIGHT"] /\ decode_op(last.bits)[2] = ExecOpr
  /\ last.dev = current_dev /\ last.ip = ip - 1

\* C24: SHIFT_RIGHT by k followed by SHIFT_LEFT by k, 0 <= k < PAIR_BITS
\* (0..95 in the program), leaves in (r1, r2) the pattern the pair had
\* before the two shifts with its k least significant bits cleared.
C24_ShiftRoundTrip ==
  [][ShiftBack =>
       LET orig == PairOf(last.regs[1], last.regs[2])
       IN /\ PairOf(r1', r2') = orig - (orig % 2^ExecOpr)
          /\ r3' = r3 /\ pc' = "block"]_vars

\* The round trip by WORD_BITS + 1 has been executed on a pair with bits set
\* on both sides of the cut: r1 negative, r2 odd.
C24_Witness ==
  /\ LastOp = OP["SHIFT_LEFT"] /\ decode_op(last.bits)[2] = WORD_BITS + 1
  /\ pc = "block"
  /\ read_bits(tape[last.dev], last.ip - 1) = encode_instr("SHIFT_RIGHT", WORD_BITS + 1)
  /\ scratchpad[1] = to_twos_complement(MIN_WORD + 1) /\ scratchpad[2] = 1
  /\ r1 = MIN_WORD /\ r2 = 0

\* The call just made on the scratchpad tape, its index and its value.
Called(fn) == resolved'.fn = fn
CallIdx == resolved'.arg[1]
CallVal == resolved'.arg[2]

\* Tape t2 is tape t after record i has been set to bits w: max(s, i + 1)
\* records, w at i, zeros from the old end up to i, the rest as it was.
WrittenAt(t, t2, i, w) ==
  /\ record_count(t2) = Max(record_count(t), i + 1)
  /\ read_bits(t2, i) = w
  /\ \A k \in record_count(t)..(i - 1) : read_bits(t2, k) = 0
  /\ \A k \in 0..(record_count(t) - 1) : k # i => read_bits(t2, k) = read_bits(t, k)

C26_EncodeDecodeRoundTrip ==
  resolved.fn = "decode_op"
    => /\ resolved.addr[1] = OP[resolved.arg[1]]
       /\ resolved.addr[1] \in 0..OPC_MASK
       /\ from_tc36(resolved.addr[2]) = resolved.arg[2]
       /\ resolved.addr[2] \in 0..OPR_MASK
       /\ \A m \in Mnemonics : OP[m] = resolved.addr[1] => m = resolved.arg[1]

\* JUMP with the most negative operand has been encoded and decoded.
C26_Witness ==
  /\ resolved.fn = "decode_op"
  /\ resolved.arg = << "JUMP", -(2^(OPR_BITS - 1)) >>
  /\ resolved.addr = << OP["JUMP"], 2^(OPR_BITS - 1) >>

\* What execution is made of: the registers, the tapes and their cursors, the
\* card reader, the context stack, the active device, the position of the
\* run and the error that ended it.
Core == << r1, r2, r3, tape, pos, card_pos, ctx_stack, current_dev, ip, boot_idx, pc, err >>

\* The outcome of the instruction about to be executed, were no sink attached.
Untraced ==
  LET s0 == [St EXCEPT !.trace_sink = NoSink]
  IN IF InBlock
     THEN execute_encoded(Touch(s0, current_dev, ip), current_dev, ExecBits, ip)
     ELSE execute_encoded(CardAdvance(s0), "scratchpad", ExecBits, None)

\* C27: tracing does not influence execution.  Whatever sink and anomaly
\* rules are attached, every instruction leaves the registers, tapes,
\* cursors, context stack and active device, returns the next index and
\* raises the error that it does with no sink attached; the runs from one
\* initial state therefore go through the same (active device, ip) and end
\* alike.  No step attaches or detaches the sink.
C27_TracingTransparent ==
  [][/\ Executing
          => /\ << r1', r2', r3', tape', pos', card_pos', ctx_stack', err' >>
                  = << Untraced.r1, Untraced.r2, Untraced.r3, Untraced.tape, Untraced.pos,
                       Untraced.card_pos, Untraced.ctx_stack, Untraced.err >>
             /\ (InBlock /\ pc' = "block")
                  => ip' = Untraced.ret /\ current_dev' = Untraced.current_dev
             /\ pc' = "fatal" <=> Untraced.err # ""
             /\ (InBlock /\ pc' = "done") <=> (InBlock /\ Untraced.err = "" /\ Untraced.ret = None)
     /\ trace_sink'.attached = trace_sink.attached
     /\ trace_sink'.rules = trace_sink.rules
     /\ (~trace_sink.attached) => trace_sink' = trace_sink]_vars

\* A run with a sink and a rule that raises has executed a WRITE_TAPE after
\* two other traced instructions, and the sink has got the three events.
C27_Witness ==
  /\ trace_sink.attached /\ trace_sink.rules = "raises"
  /\ Len(trace_sink.collector) = 3
  /\ LastOp = OP["WRITE_TAPE"] /\ paper # << >>

\* C28: at every step of a block execution, the first or a later one on the
\* same CPU: with an empty context stack the active device is the device the
\* current block was started on, and with a non-empty one it is the target
\* device of the most recent CALL that has not been returned from.
C28_ActiveDevice ==
  pc = "block"
    => /\ Len(nesting.call_devs) = Len(ctx_stack)
       /\ current_dev = IF ctx_stack = << >> THEN nesting.block_dev
                        ELSE nesting.call_devs[Len(nesting.call_devs)]

\* A second block, started on the library after a block on the scratchpad
\* has returned, is past its second instruction with an empty context stack.
C28_Witness ==
  /\ pc = "block" /\ runs > MaxRuns
  /\ nesting.block_dev = "library" /\ current_dev = "library"
  /\ ctx_stack = << >> /\ last.dev = "library" /\ ip = LibBody + 2
  /\ paper # << >>

\* The device code of the REWIND, FF or STATUS about to be executed: the
\* signed operand, or for FF the field above the count.
RealismDevCode ==
  IF ExecOp = OP["FF"]
  THEN (ExecOpr \div 2^FF_COUNT_BITS) % 2^(OPR_BITS - FF_COUNT_BITS)
  ELSE from_tc36(ExecOpr)

\* C29: REWIND, FF or STATUS whose device code is none of 0, 1, 2 is a no-op
\* that still advances: the block continues at ip + 1, and r1, r2, r3, every
\* tape and every device cursor are as the fetch of the word left them.
C29_RealismNoOp ==
  [][(InBlock /\ ExecOp \in RealismOps /\ RealismDevCode \notin {0, 1, 2})
       => /\ pc' = "block" /\ ip' = ip + 1
          /\ UNCHANGED << r1, r2, r3, tape >>
          /\ pos' = Touch(St, current_dev, ip).pos]_vars

\* The opcodes of OP that read or write a word of a device by its index.
IndexedOps ==
  { OP[m] : m \in {"LOAD_R1", "LOAD_R2", "LOAD_R3", "STORE_R1", "STORE_R3",
                   "SLOAD_R1", "SLOAD_R2", "SLOAD_R3"} }

\* STATUS of device code d is about to be executed right after REWIND of the
\* same device.
StatusAfterRewind(d) ==
  /\ InBlock /\ ExecOp = OP["STATUS"] /\ from_tc36(ExecOpr) = d
  /\ last.bits = encode_instr("REWIND", d)
  /\ last.dev = current_dev /\ last.ip = ip - 1

\* C30: the fetch of a word and LOAD, STORE and SLOAD leave the cursor of
\* every device where it was, and STATUS executed right after REWIND of the
\* same device sets r3 to 0 and continues, also on the device executed from.
C30_CursorOnlyRealism ==
  [][/\ (InBlock /\ ExecOp \in IndexedOps \cup {OP["NOP"]}) => pos' = pos
     /\ \A d \in {0, 1, 2} :
          StatusAfterRewind(d) => r3' = 0 /\ pc' = "block" /\ ip' = ip + 1]_vars

PlainOps ==
  { OP[m] : m \in {"NOP", "STORE_R1", "STORE_R3", "LOAD_R1", "LOAD_R2", "LOAD_R3",
                   "CLEAR_R1", "CLEAR_R2", "CLEAR_R3", "WRITE_TAPE", "READ_CARD",
                   "ADD", "NEG", "AND", "OR", "XOR"} }

\* No card of the deck transfers control: every even-numbered card (counting
\* from 1) is a plain instruction with a non-negative operand.
PlainDeck ==
  \A k \in 1..Len(cards) :
    k % 2 = 0 => /\ decode_op(cards[k])[1] \in PlainOps
                 /\ decode_op(cards[k])[2] < 2^(OPR_BITS - 1)

\* C32: booting a deck in which no card transfers control reads one card per
\* step, in order: card k (counting from 1) sets r1 when k is odd and is
\* executed as an instruction on the scratchpad when k is even, boot goes on
\* to the next card, and at the end of the deck boot returns with the reader
\* at the end.
C32_BootReadsEveryCard ==
  [][(pc = "boot" /\ PlainDeck)
       => IF card_pos < Len(cards)
          THEN /\ card_pos' = card_pos + 1 /\ pc' = "boot"
               /\ IF (card_pos + 1) % 2 = 1
                  THEN r1' = read_word(cards, card_pos) /\ last' = last
                  ELSE /\ last'.bits = read_bits(cards, card_pos)
                       /\ last'.dev = "scratchpad"
          ELSE pc' = "done" /\ card_pos' = card_pos]_vars

\* The boot loader is about to execute a READ_CARD card.
BootReadCard == OnEvenCard /\ ExecOp = OP["READ_CARD"]

\* C33: cards are delivered through one reader position shared by boot and
\* READ_CARD, each at most once and in deck order: READ_CARD sets r3 to the
\* next undelivered card, at the end of the deck it leaves r3 unchanged and
\* still continues at ip + 1, a boot step takes the next card (and a
\* READ_CARD card the one behind it), and no other instruction, REWIND and FF
\* of the cards device included, moves the reader.
C33_CardsSequential ==
  [][/\ card_pos <= card_pos' /\ card_pos' <= Len(cards) /\ cards' = cards
     /\ (InBlock /\ ExecOp = OP["READ_CARD"])
          => /\ pc' = "block" /\ ip' = ip + 1
             /\ IF card_pos < Len(cards)
                THEN r3' = read_word(cards, card_pos) /\ card_pos' = card_pos + 1
                ELSE UNCHANGED << r3, card_pos >>
     /\ (InBlock /\ ExecOp # OP["READ_CARD"]) => card_pos' = card_pos
     /\ BootReadCard
          => IF card_pos + 1 < Len(cards)
             THEN r3' = read_word(cards, card_pos + 1) /\ card_pos' = card_pos + 2
             ELSE r3' = r3 /\ card_pos' = card_pos + 1
     /\ (pc = "boot" /\ ~BootReadCard)
          => card_pos' = IF card_pos < Len(cards) THEN card_pos + 1 ELSE card_pos]_vars

\* The third READ_CARD of a block found the deck of two cards delivered, in
\* order, and left r3 at the second card.
C33_Witness ==
  /\ pc = "block" /\ LastOp = OP["READ_CARD"]
  /\ Len(cards) = 2 /\ card_pos = 2
  /\ last.regs[3] = read_word(cards, 1) /\ r3 = read_word(cards, 1) /\ r3 # 0
  /\ last.ip = ProgStart + 2 /\ ip = ProgStart + 3

\* C34: for every mode, flags and value the fields hold, the CALL handler
\* unpacks the word encode_instr("CALL", pack_call_operand(mode, flags, value))
\* to the same mode, flags and value.
C34_CallOperandRoundTrip ==
  resolved.fn = "call_unpack" => resolved.addr = resolved.arg

\* The functions and the globals the library was built from, and the start
\* of function number i (from 0) in it.
BuiltFns == built_from.functions
BuiltGlobals == built_from.globals
StartOf(i) == FnStart(BuiltFns, i + 1)

\* C36: in a library tape that build produced without raising, no global
\* lies at an address inside the header, the TOC or the function records.
C36_GlobalsDisjoint ==
  pc = "built"
    => \A g \in 1..Len(BuiltGlobals) :
         BuiltGlobals[g][1] \notin 0..(StartOf(Len(BuiltFns)) - 1)

\* The namehashes of the functions are pairwise distinct.
DistinctHashes ==
  \A i, j \in 1..Len(BuiltFns) :
    BuiltFns[i].namehash = BuiltFns[j].namehash => i = j

\* C35: a library built from n functions starts with (MAGIC, VERSION, n, 4),
\* its TOC entry i is (fn_id, namehash, start, 3 + body length) of function i
\* with the first start at 4 + 4n and each next one at the end of the record
\* before it, resolve_idx(i) answers start + 3 of function i, and with
\* pairwise distinct namehashes so does resolve_name of its namehash.
C35_BuilderReaderAgree ==
  pc = "built"
    => LET n == Len(BuiltFns)
       IN /\ SubSeq(library, 1, 4) = << LIB_MAGIC, VERSION, n, 4 >>
          /\ \A i \in 0..(n - 1) :
               /\ SubSeq(library, 5 + 4 * i, 8 + 4 * i)
                    = << BuiltFns[i + 1].fn_id, BuiltFns[i + 1].namehash, StartOf(i),
                         3 + Len(BuiltFns[i + 1].body) >>
               /\ StartOf(i) = IF i = 0 THEN 4 + 4 * n
                               ELSE StartOf(i - 1) + library[8 + 4 * (i - 1)]
          /\ (resolved.fn = "idx" /\ resolved.arg < n)
               => resolved.err = "" /\ resolved.addr = StartOf(resolved.arg) + 3
          /\ (resolved.fn = "name" /\ DistinctHashes)
               => \A i \in 0..(n - 1) :
                    BuiltFns[i + 1].namehash = resolved.arg
                      => resolved.err = "" /\ resolved.addr = StartOf(i) + 3

\* C37: with a sink attached, every instruction that is executed adds one to
\* instr_count and one to by_opcode of its opcode and to no other (NOP
\* included), instr_count stays the number of trace events emitted, and
\* max_stack_depth stays the greatest context stack depth reached.
C37_MetricsCountEveryInstruction ==
  [][(trace_sink.attached /\ (InBlock \/ OnEvenCard) /\ err' = "")
       => /\ metrics'.instr_count = metrics.instr_count + 1
          /\ metrics'.by_opcode = [metrics.by_opcode EXCEPT ![ExecOp] = @ + 1]
          /\ metrics'.instr_count = Len(trace_sink'.collector)
          /\ metrics'.max_stack_depth
               = Max(metrics.max_stack_depth, Len(ctx_stack'))]_vars

\* The scratchpad holds the program that calls library function 0 once and
\* halts when the function has returned through its RET.
OneCallProgram ==
  /\ SubSeq(scratchpad, ProgStart + 1, Len(scratchpad))
       = << CallWord(CALL_MODE_LIB_IDX, 0, 0), encode_instr("HALT", 0) >>
  /\ library = Lib1

\* C38: with a sink attached, when the run of a program that performs one
\* CALL into the library, returned from through the matching RET, has ended,
\* metrics["ctx_switches"] is 1.
C38_OneContextSwitch ==
  (/\ trace_sink.attached /\ OneCallProgram /\ pc \in {"done", "fatal"}
   /\ \/ last.bits = CallWord(CALL_MODE_LIB_IDX, 0, 0)
      \/ metrics.by_opcode[OP["CALL"]] = 1)
    => metrics.ctx_switches = 1

\* The position the scratchpad tape reports lies within its records.
PositionInRange ==
  /\ 0 <= pos["scratchpad"]
  /\ pos["scratchpad"] <= Max(0, record_count(scratchpad) - 1)

====
